---- MODULE Spec2Model ----
(***************************************************************************)
(* A model of svm_wrapper.cpp: the persisted classifier state              *)
(* (CSavedSVMState), the runtime classifier (CSVMClassifier), sigmoid      *)
(* calibration and the training run (CSVMTraining).                        *)
(*                                                                         *)
(* Numbers.  The program computes in double and float.  The model computes *)
(* in integers and exact fractions:                                        *)
(*   - feature values, normalising means and cascade thresholds are        *)
(*     integers (one unit of the feature);                                 *)
(*   - classification boundaries are in tenths (the sweep step of          *)
(*     trainOnAll), precisions in hundredths, so NO_PRECISION = -1.0 is    *)
(*     -100;                                                               *)
(*   - sigmoid thresholds and probabilities are in thousandths;            *)
(*   - a value that needs a division is kept as a fraction [n, d], d > 0,  *)
(*     in lowest terms.                                                    *)
(* The external collaborators (the classifier engine cv::SVM, the          *)
(* optimiser CLevMar, cv::FileStorage, the thread pool) are not in the     *)
(* source: the model gives them the behaviour of their interface and       *)
(* chooses their results nondeterministically from small sets.             *)
(***************************************************************************)
EXTENDS Integers, Sequences, FiniteSets, TLC

VARIABLES
    \* ---- persisted classifier state: CSavedSVMState ----
    trained,    \* the arguments of the saving constructor
    file,       \* savedSVMstate<label>_subset.yaml: NoFile or its keys
    svmFile,    \* savedSVMstate<label>.yaml: NoFile or the engine model
    loaded,     \* slot -> NoState, or the CSavedSVMState a load constructed
    \* ---- runtime classifier: CSVMClassifier ----
    clf,        \* the constructed classifier: savedState, svm, svmLoaded
    featureMat, \* the member cv::Mat feature, shared by every classify call
    call,       \* caller -> its call in progress (locals of classify/probability)
    \* ---- sigmoid calibration: CSVMTraining::fitSigmoid ----
    fit,        \* the calibration in progress
    \* ---- training run: CSVMTraining::~CSVMTraining ----
    tr,         \* the trainer and the locals of its destructor and of trainSVM
    jobs,       \* the jobs of the thread pool, one per hyperparameter point
    \* ---- units of the trainer taken on their own ----
    coll,       \* the collection phase: mxLockToAdd, aaadFeatures, the producers
    feat,       \* one CSVMFeature_base and the calls made on it
    folds,      \* one CKfoldTrainValidateFeatureSet and the scoring of one point
    rates,      \* one validation set and its success rates
    casc,       \* one cascade construction: findBoosterStates
    grid,       \* one grid of hyperparameter points and its pruning
    onAll       \* one trainOnAll: the boundary sweep of a trained engine

persistVars == <<trained, file, svmFile, loaded>>

runtimeVars == <<clf, featureMat, call>>

calibVars == <<fit>>

trainVars == <<tr, jobs>>

unitVars == <<coll, feat, folds, rates, casc, grid, onAll>>

vars == <<trained, file, svmFile, loaded, clf, featureMat, call, fit, tr, jobs,
          coll, feat, folds, rates, casc, grid, onAll>>

----------------------------------------------------------------------------
(* Arithmetic helpers. *)

Abs(x) == IF x < 0 THEN -x ELSE x

Min(a, b) == IF a <= b THEN a ELSE b

Max(a, b) == IF a >= b THEN a ELSE b

RECURSIVE Gcd(_, _)
Gcd(a, b) == IF b = 0 THEN a ELSE Gcd(b, a % b)

\* The fraction n/d in lowest terms with a positive denominator (d # 0).
Frac(n, d) ==
    LET g == Gcd(Abs(n), Abs(d))
        s == IF d < 0 THEN -1 ELSE 1
    IN  [n |-> (s * n) \div g, d |-> (s * d) \div g]

FracOfInt(i) == [n |-> i, d |-> 1]

\* floor of a fraction
FracFloor(q) == q.n \div q.d

----------------------------------------------------------------------------
(* Program constants. *)

\* HUGE of <math.h> (3.4e38), the initial dP1, dP2 of interpPrecisionBoundary and
\* the threshold of a default CBoosterState: a number far above every precision
\* and feature value of the model.
HUGE == 100000

\* CSVMClassifier_base::NO_PRECISION = -1, in hundredths.
NO_PRECISION == -100

\* A file that does not exist.
NoFile == [exists |-> FALSE]

\* A load slot in which no CSavedSVMState was constructed yet.
NoState == [status |-> "none"]

----------------------------------------------------------------------------
(* CSigmoidParams *)

\* CSigmoidParams(dThreshLo = 0.1, dThreshHi = 0.9, dShift = 0, dScale = 1)
CSigmoidParams(lo, hi, shift, scale) ==
    [dThreshLo |-> lo, dThreshHi |-> hi, dShift |-> shift, dScale |-> scale]

DefaultSigmoidParams == CSigmoidParams(100, 900, 0, 1)

----------------------------------------------------------------------------
(* CBoosterState and its conversions to and from a row of doubles. *)

CBoosterState(nFeatureIdx, dThreshold, bRejectAbove) ==
    [nFeatureIdx |-> nFeatureIdx, dThreshold |-> dThreshold,
     bRejectAbove |-> bRejectAbove]

\* row.at<double>(0) = int: exact for every int.
IntToDouble(i) == i

\* row.at<double>(2) = bool: 1.0 or 0.0.
BoolToDouble(b) == IF b THEN 1 ELSE 0

\* (int)double: truncation towards zero (the model's doubles are whole).
DoubleToInt(d) == d

\* (bool)double: true for every value but 0.0.
DoubleToBool(d) == d # 0

\* save, lines 385-392: one row (index, threshold, direction) per stage.
SaveBoosterStates(boosterStates) ==
    [i \in 1..Len(boosterStates) |->
        <<IntToDouble(boosterStates[i].nFeatureIdx),
          boosterStates[i].dThreshold,
          BoolToDouble(boosterStates[i].bRejectAbove)>>]

\* A plausible slip of the load: the direction read from the threshold column.
LoadBoosterStates_wrongColumn(boosterStatesMat) ==
    [i \in 1..Len(boosterStatesMat) |->
        CBoosterState(DoubleToInt(boosterStatesMat[i][1]),
                      boosterStatesMat[i][2],
                      DoubleToBool(boosterStatesMat[i][2]))]

\* load, lines 336-339: push_back one CBoosterState per row, in row order.
LoadBoosterStates(boosterStatesMat) ==
    [i \in 1..Len(boosterStatesMat) |->
        CBoosterState(DoubleToInt(boosterStatesMat[i][1]),
                      boosterStatesMat[i][2],
                      DoubleToBool(boosterStatesMat[i][3]))]

----------------------------------------------------------------------------
(* CSavedSVMState::interpPrecisionBoundary *)

\* The pass of InterpStep with the shift of the old nearest sample into the
\* second place forgotten.
InterpStep_noShift(acc, dBoundary, dPrecision, dTargetPrecision) ==
    IF Abs(dPrecision - dTargetPrecision) < Abs(acc.dP1 - dTargetPrecision)
    THEN [acc EXCEPT !.dP1 = dPrecision, !.dBoundary1 = dBoundary]
    ELSE IF Abs(dPrecision - dTargetPrecision) < Abs(acc.dP2 - dTargetPrecision)
    THEN [acc EXCEPT !.dP2 = dPrecision, !.dBoundary2 = dBoundary]
    ELSE acc

\* One pass of the loop of lines 297-309 over sample i, acc = the locals
\* dP1, dBoundary1, dP2, dBoundary2.
InterpStep(acc, dBoundary, dPrecision, dTargetPrecision) ==
    IF Abs(dPrecision - dTargetPrecision) < Abs(acc.dP1 - dTargetPrecision)
    THEN [dP1 |-> dPrecision, dBoundary1 |-> dBoundary,
          dP2 |-> acc.dP1, dBoundary2 |-> acc.dBoundary1]
    ELSE IF Abs(dPrecision - dTargetPrecision) < Abs(acc.dP2 - dTargetPrecision)
    THEN [acc EXCEPT !.dP2 = dPrecision, !.dBoundary2 = dBoundary]
    ELSE acc

RECURSIVE InterpLoop(_, _, _, _)
InterpLoop(acc, i, dTargetPrecision, PRLookup) ==
    IF i > Len(PRLookup.first) THEN acc
    ELSE InterpLoop(InterpStep(acc, PRLookup.first[i], PRLookup.second[i],
                               dTargetPrecision),
                    i + 1, dTargetPrecision, PRLookup)

\* The interpolation without the CHECK of line 318: a horizontal segment
\* yields the boundary of the nearest sample.
interpPrecisionBoundary_noCheck(dTargetPrecision, PRLookup) ==
    LET acc == InterpLoop([dP1 |-> HUGE, dBoundary1 |-> 0,
                           dP2 |-> HUGE, dBoundary2 |-> 0],
                          1, dTargetPrecision, PRLookup)
    IN  [fatal |-> FALSE, sel |-> acc,
         boundary |->
             IF acc.dP2 = acc.dP1 THEN FracOfInt(acc.dBoundary1)
             ELSE Frac(acc.dBoundary1 * (acc.dP2 - acc.dP1)
                         + (acc.dBoundary2 - acc.dBoundary1)
                             * (dTargetPrecision - acc.dP1),
                       acc.dP2 - acc.dP1)]

\* Lines 292-322.  The line through (dP1, dBoundary1) and (dP2, dBoundary2) at
\* dTargetPrecision.  With dP1 = dP2 the slope m is infinite or NaN, so is
\* c - (dBoundary2 - m * dP2), and the CHECK of line 318 is fatal; with
\* dP1 # dP2 that difference is zero and the CHECK passes.
interpPrecisionBoundary(dTargetPrecision, PRLookup) ==
    LET acc == InterpLoop([dP1 |-> HUGE, dBoundary1 |-> 0,
                           dP2 |-> HUGE, dBoundary2 |-> 0],
                          1, dTargetPrecision, PRLookup)
    IN  IF acc.dP2 = acc.dP1
        THEN [fatal |-> TRUE, sel |-> acc, boundary |-> FracOfInt(0)]
        ELSE [fatal |-> FALSE, sel |-> acc,
              boundary |->
                  Frac(acc.dBoundary1 * (acc.dP2 - acc.dP1)
                         + (acc.dBoundary2 - acc.dBoundary1)
                             * (dTargetPrecision - acc.dP1),
                       acc.dP2 - acc.dP1)]

----------------------------------------------------------------------------
(* CFeatureSubsetSelecter: save and load. *)

CFeatureSubsetSelecter(anFeatureIdxSubset, adNormalisingMean, adNormalisingScale) ==
    [anFeatureIdxSubset |-> anFeatureIdxSubset,
     adNormalisingMean |-> adNormalisingMean,
     adNormalisingScale |-> adNormalisingScale]

\* The default constructor, line 161: three empty vectors.
EmptySelecter == CFeatureSubsetSelecter(<<>>, <<>>, <<>>)

\* Lines 208-214: the subset as an N x 1 matrix of int, the coefficients as
\* sequences of double.
SaveSelecter(fs, sel) ==
    [fs EXCEPT !.keys = @ \cup {"featureSubset", "normalisingMean",
                                 "normalisingScale"},
               !.featureSubset = [i \in 1..Len(sel.anFeatureIdxSubset) |->
                                      sel.anFeatureIdxSubset[i]],
               !.normalisingMean = sel.adNormalisingMean,
               !.normalisingScale = sel.adNormalisingScale]

\* Lines 175-184: push_back row i of the matrix for every row, in order, onto
\* the selecter's (empty) subset; the coefficients are read whole.
LoadSelecter(fs) ==
    CFeatureSubsetSelecter(
        [i \in 1..Len(fs.featureSubset) |-> fs.featureSubset[i]],
        fs.normalisingMean, fs.normalisingScale)

----------------------------------------------------------------------------
(* CSavedSVMState: the saving and the loading constructor. *)

\* A cv::FileStorage opened for writing: the file exists (line 383) and no key
\* is written yet.  keys is the set of keys written; cv::FileNode::empty() is
\* true of a key outside it.
EmptyFileStorage ==
    [exists |-> TRUE, keys |-> {},
     trainingDetails |-> "", boosterStates |-> <<>>,
     signCorrection |-> 0, featureSubset |-> <<>>,
     normalisingMean |-> <<>>, normalisingScale |-> <<>>,
     boundaries |-> <<>>, precision |-> <<>>,
     sigmoid_thresh_lo |-> 0, sigmoid_thresh_hi |-> 0,
     sigmoid_scale |-> 0, sigmoid_shift |-> 0]

FileNodeEmpty(fs, key) == key \notin fs.keys

\* Lines 364-412, the structured state file.
SavedFile(t) ==
    LET fs1 == [EmptyFileStorage EXCEPT
                   !.keys = {"trainingDetails", "boosterStates", "signCorrection"},
                   !.trainingDetails = t.trainingDetails,
                   !.boosterStates = SaveBoosterStates(t.boosterStates),
                   !.signCorrection = t.dSignCorrection]
        fs2 == SaveSelecter(fs1, t.featureSubset)
    IN  [fs2 EXCEPT !.keys = @ \cup {"boundaries", "precision",
                                      "sigmoid_thresh_lo", "sigmoid_thresh_hi",
                                      "sigmoid_scale", "sigmoid_shift"},
                    !.boundaries = t.PRLookup.first,
                    !.precision = t.PRLookup.second,
                    !.sigmoid_thresh_lo = t.sigmoidParams.dThreshLo,
                    !.sigmoid_thresh_hi = t.sigmoidParams.dThreshHi,
                    !.sigmoid_scale = t.sigmoidParams.dScale,
                    !.sigmoid_shift = t.sigmoidParams.dShift]

\* A plausible slip of the save: svm.save without the test of line 404.
SavedSVMFile_always(t, old) == [exists |-> TRUE, model |-> t.svm]

\* Lines 404-406: svm.save only for a non-zero sign correction; an engine file
\* already on disk stays.
SavedSVMFile(t, old) ==
    IF t.dSignCorrection # 0 THEN [exists |-> TRUE, model |-> t.svm] ELSE old

\* Lines 352-357: the sigmoid keys replace the defaults when present.
LoadSigmoid(fs) ==
    IF ~FileNodeEmpty(fs, "sigmoid_thresh_lo")
    THEN CSigmoidParams(fs.sigmoid_thresh_lo, fs.sigmoid_thresh_hi,
                        fs.sigmoid_shift, fs.sigmoid_scale)
    ELSE DefaultSigmoidParams

\* Lines 326-361.  status "fatal": a CHECK of the constructor failed and no
\* object exists.
LoadedState(fs, dPrecision) ==
    LET interp == interpPrecisionBoundary(
                      dPrecision, [first |-> fs.boundaries, second |-> fs.precision])
        useLookup == ~FileNodeEmpty(fs, "boundaries") /\ dPrecision # NO_PRECISION
    IN  [status |-> IF useLookup /\ interp.fatal THEN "fatal" ELSE "loaded",
         dPrecision |-> dPrecision,
         boosterStates |-> LoadBoosterStates(fs.boosterStates),
         featureSubset |-> LoadSelecter(fs),
         dSignCorrection |-> fs.signCorrection,
         dClassificationBoundary |->
             IF useLookup THEN interp.boundary ELSE FracOfInt(0),
         useLookup |-> useLookup,
         sigmoidParams |-> LoadSigmoid(fs)]

FatalState(dPrecision) == [status |-> "fatal", dPrecision |-> dPrecision]

----------------------------------------------------------------------------
(* The classifier engine cv::SVM, a black box. *)

\* A trained cv::SVM: its raw response to a feature x is w times the first
\* coefficient of x plus b, in tenths; throws: predict throws cv::Exception.
EngineModel(w, b, throws) == [isTrained |-> TRUE, w |-> w, b |-> b, throws |-> throws]

\* A default-constructed cv::SVM.
NoModel == [isTrained |-> FALSE, w |-> 0, b |-> 0, throws |-> TRUE]

\* svm.predict(feature, true)
RawPredict(svm, x) == svm.w * (IF Len(x) = 0 THEN 0 ELSE x[1]) + svm.b

----------------------------------------------------------------------------
(* CSVMFeature_base: a feature vector filled lazily from its provider. *)

\* CSVMFeature_base::UNINIT() = -1e+20f: a float far below the feature values
\* of the examples, and beyond 2^24, where not every whole number is a float.
UNINIT == -1000000000

\* The spacing of the floats at the magnitude a: a float has 24 bits.
RECURSIVE FloatSpacing(_, _)
FloatSpacing(a, u) == IF a < 16777216 * u THEN u ELSE FloatSpacing(a, 2 * u)

\* (float)x: the nearest float, ties to the even one.  Whole numbers below
\* 2^24 are floats.
ToFloat(x) ==
    LET a == Abs(x)
        u == FloatSpacing(a, 1)
        q == a \div u
        r == a % u
        n == IF 2 * r > u \/ (2 * r = u /\ q % 2 = 1) THEN q + 1 ELSE q
    IN  IF x < 0 THEN -(n * u) ELSE n * u

\* Lines 454-457: every coefficient UNINIT.
NewFeature(nDim) == [i \in 1..nDim |-> UNINIT]

\* Lines 459-467: the cache after value(nIdx); prov is value_int.
ValueCache(cache, prov, nIdx) ==
    IF cache[nIdx + 1] = UNINIT
    THEN [cache EXCEPT ![nIdx + 1] = ToFloat(prov[nIdx + 1])]
    ELSE cache

\* Lines 459-467: what value(nIdx) returns.
Value(cache, prov, nIdx) == ValueCache(cache, prov, nIdx)[nIdx + 1]

\* Lines 481-488: value(i) for every i from nIdx on; the cache afterwards.
RECURSIVE EntireFeatureFrom(_, _, _)
EntireFeatureFrom(cache, prov, nIdx) ==
    IF nIdx >= Len(cache) THEN cache
    ELSE EntireFeatureFrom(ValueCache(cache, prov, nIdx), prov, nIdx + 1)

\* Lines 481-488: the feature getEntireFeature returns.
getEntireFeature(cache, prov) == EntireFeatureFrom(cache, prov, 0)

----------------------------------------------------------------------------
(* CBoostedFilter, CBoostedFilters *)

\* Lines 499-505.
keepPotentialCandidate(state, dFeatureVal) ==
    IF state.bRejectAbove
    THEN dFeatureVal < state.dThreshold
    ELSE dFeatureVal > state.dThreshold

\* Lines 544-552: the stages in order from stage k; the first that rejects
\* ends the loop.  keep: the answer; cache: the feature's cache afterwards.
RECURSIVE FiltersKeep(_, _, _, _)
FiltersKeep(aFilters, k, cache, prov) ==
    IF k > Len(aFilters) THEN [keep |-> TRUE, cache |-> cache]
    ELSE LET c2 == ValueCache(cache, prov, aFilters[k].nFeatureIdx)
         IN  IF ~keepPotentialCandidate(aFilters[k], c2[aFilters[k].nFeatureIdx + 1])
             THEN [keep |-> FALSE, cache |-> c2]
             ELSE FiltersKeep(aFilters, k + 1, c2, prov)

----------------------------------------------------------------------------
(* CSigmoidParams::validate, prob, logisticSigmoid *)

\* CHECKPROBABILITY(x): fatal unless 0 <= x <= 1 (thousandths).
IsProbability(x) == 0 <= x /\ x <= 1000

\* validate without the CHECK on the scale.
validate_noScaleCheck(p) ==
    /\ IsProbability(p.dThreshLo)
    /\ IsProbability(p.dThreshHi)
    /\ ~(p.dThreshLo >= p.dThreshHi)

\* validate with the thresholds allowed to be equal.
validate_equalThresholds(p) ==
    /\ IsProbability(p.dThreshLo)
    /\ IsProbability(p.dThreshHi)
    /\ ~(p.dThreshLo > p.dThreshHi)
    /\ ~(p.dScale <= 0)

\* Lines 73-80: TRUE when no CHECK fails.
validate(p) ==
    /\ IsProbability(p.dThreshLo)
    /\ IsProbability(p.dThreshHi)
    /\ ~(p.dThreshLo >= p.dThreshHi)
    /\ ~(p.dScale <= 0)

\* 1000 / (1 + exp(-k)) for whole k, to the nearest thousandth.
LogisticTable ==
    [k \in -7..7 |->
        CASE k = -7 -> 1 [] k = -6 -> 2 [] k = -5 -> 7 [] k = -4 -> 18
          [] k = -3 -> 47 [] k = -2 -> 119 [] k = -1 -> 269 [] k = 0 -> 500
          [] k = 1 -> 731 [] k = 2 -> 881 [] k = 3 -> 953 [] k = 4 -> 982
          [] k = 5 -> 993 [] k = 6 -> 998 [] k = 7 -> 999]

\* Lines 88-91, 1.0 / (1.0 + exp(-x)) in thousandths, x a whole number: in
\* double the result is 0 for a very negative x and 1 for a large one.
logisticSigmoid(x) ==
    IF x < -7 THEN 0 ELSE IF x > 7 THEN 1000 ELSE LogisticTable[x]

\* Lines 82-86; dResponse a fraction in tenths, dShift in tenths, dScale per
\* unit of response.
prob(p, dResponse) ==
    p.dThreshLo
      + ((p.dThreshHi - p.dThreshLo)
           * logisticSigmoid((p.dScale * (dResponse.n - p.dShift * dResponse.d))
                                \div (10 * dResponse.d))) \div 1000

\* Lines 92-97, in whole numbers: the x whose logisticSigmoid is nearest to
\* p; clip keeps the result finite at 0 and at 1.
logisticSigmoid_inv(p) ==
    IF p <= 0 THEN -9
    ELSE IF p >= 1000 THEN 9
    ELSE CHOOSE k \in -7..7 :
            \A j \in -7..7 :
                \/ Abs(LogisticTable[k] - p) < Abs(LogisticTable[j] - p)
                \/ (Abs(LogisticTable[k] - p) = Abs(LogisticTable[j] - p) /\ k <= j)

\* No calibration is in progress.
NoFit == [pc |-> "none"]

\* No trainer exists.
NoTraining == [pc |-> "none"]

\* No unit is taken on its own.
NoUnit == [pc |-> "none"]

UnitsIdle ==
    /\ coll = NoUnit
    /\ feat = NoUnit
    /\ folds = NoUnit
    /\ rates = NoUnit
    /\ casc = NoUnit
    /\ grid = NoUnit
    /\ onAll = NoUnit

----------------------------------------------------------------------------
(* CSVMClassifier *)

\* Tenths in one unit of classifier response: classify's -1 and 1 are -10, 10.
ScoreUnit == 10

NoClassifier == [constructed |-> FALSE]

\* A slip of the constructor: the engine model loaded whenever its file exists.
LoadSVM_ifFileExists(savedState, engineFile) == engineFile.exists

\* Lines 571-572: svm.load only for a non-zero sign correction.
LoadSVM(savedState, engineFile) == savedState.dSignCorrection # 0

\* Lines 566-573.
CSVMClassifier(fs, engineFile, dPrecision) ==
    LET savedState == LoadedState(fs, dPrecision)
        load == LoadSVM(savedState, engineFile)
    IN  [constructed |-> TRUE,
         savedState |-> savedState,
         svmLoaded |-> load,
         svm |-> IF load /\ engineFile.exists THEN engineFile.model ELSE NoModel]

IdleCall ==
    [pc |-> "idle", op |-> "classify", pdScore |-> FALSE, prov |-> <<>>,
     cache |-> <<>>, i |-> 0, dScore |-> FracOfInt(0), ret |-> FracOfInt(0),
     scoreOut |-> [written |-> FALSE, v |-> FracOfInt(0)],
     classifyCalled |-> FALSE, predicted |-> FALSE]

\* classify with the sign-correction test made before the cascade test.
ClassifyEntry_signFirst(c, cache, prov) ==
    LET f == FiltersKeep(c.savedState.boosterStates, 1, cache, prov)
    IN  IF c.savedState.dSignCorrection = 0
        THEN [done |-> TRUE, dScore |-> FracOfInt(ScoreUnit), cache |-> cache]
        ELSE IF ~f.keep
        THEN [done |-> TRUE, dScore |-> FracOfInt(-ScoreUnit), cache |-> f.cache]
        ELSE [done |-> FALSE, dScore |-> FracOfInt(0), cache |-> f.cache]

\* Lines 584-588: the two early returns of classify.
ClassifyEntry(c, cache, prov) ==
    LET f == FiltersKeep(c.savedState.boosterStates, 1, cache, prov)
    IN  IF ~f.keep
        THEN [done |-> TRUE, dScore |-> FracOfInt(-ScoreUnit), cache |-> f.cache]
        ELSE IF c.savedState.dSignCorrection = 0
        THEN [done |-> TRUE, dScore |-> FracOfInt(ScoreUnit), cache |-> f.cache]
        ELSE [done |-> FALSE, dScore |-> FracOfInt(0), cache |-> f.cache]

\* Lines 200-201: coefficient i of the reduced vector.
SelectedCoefficient(sel, cache, prov, i) ==
    LET nIdx == sel.anFeatureIdxSubset[i]
    IN  ToFloat(sel.adNormalisingScale[nIdx + 1]
                  * (Value(cache, prov, nIdx) - sel.adNormalisingMean[nIdx + 1]))

\* Line 197, featureSubset.create: the matrix is kept when it has the size
\* asked for; a new one holds arbitrary values, here zeros.
Create(mat, n) == IF Len(mat) = n THEN mat ELSE [k \in 1..n |-> 0]

\* Lines 591-596: the score from the engine's raw response to the member
\* matrix.
ScoreOf(c, mat) ==
    LET b == c.savedState.dClassificationBoundary
    IN  Frac(c.savedState.dSignCorrection * (RawPredict(c.svm, mat) * b.d - b.n), b.d)

----------------------------------------------------------------------------
(* Bounds and input sets of the persistence specification. *)

\* Longest precision/boundary lookup of a saved state.
MaxLookup == 3

\* Load slots: the loads made of one saved state.
Slots == {1, 2}

\* Boundaries (tenths) and precisions (hundredths) of lookup samples.
LookupBoundaries == {-10, 0, 10}

LookupPrecisions == {50, 80, 95}

\* Target precisions a caller asks for.
TargetPrecisions == {NO_PRECISION, 65, 90, 99}

LookupsOfLen(n) ==
    {[first |-> b, second |-> p] :
        b \in [1..n -> LookupBoundaries], p \in [1..n -> LookupPrecisions]}

Lookups == UNION {LookupsOfLen(n) : n \in 0..MaxLookup}

\* Cascade, selecter, sign correction and sigmoid of the states saved.
TrainedCores ==
    { [boosterStates |-> <<>>, featureSubset |-> EmptySelecter,
       dSignCorrection |-> 0, sigmoidParams |-> DefaultSigmoidParams],
      [boosterStates |-> <<CBoosterState(0, 3, FALSE)>>,
       featureSubset |-> CFeatureSubsetSelecter(<<1, 0>>, <<2, 0>>, <<1, 3>>),
       dSignCorrection |-> 1, sigmoidParams |-> CSigmoidParams(0, 1000, -2, 3)],
      [boosterStates |-> <<CBoosterState(1, -2, TRUE), CBoosterState(0, 0, FALSE)>>,
       featureSubset |-> CFeatureSubsetSelecter(<<0>>, <<-1, 4>>, <<2, 1>>),
       dSignCorrection |-> -1, sigmoidParams |-> CSigmoidParams(250, 750, 1, 2)] }


----------------------------------------------------------------------------
(* The persistence specification: one trained state is saved and loaded. *)

InitPersist ==
    /\ \E core \in TrainedCores, lk \in Lookups :
          \* a run that trains no engine sweeps no boundary
          /\ core.dSignCorrection = 0 => lk = [first |-> <<>>, second |-> <<>>]
          /\ trained = [boosterStates |-> core.boosterStates,
                     featureSubset |-> core.featureSubset,
                     svm |-> IF core.dSignCorrection = 0 THEN NoModel
                             ELSE EngineModel(1, 0, FALSE),
                     dSignCorrection |-> core.dSignCorrection,
                     PRLookup |-> lk,
                     sigmoidParams |-> core.sigmoidParams,
                     trainingDetails |-> "summary"]
    /\ file = NoFile
    /\ svmFile = NoFile
    /\ loaded = [s \in Slots |-> NoState]
    /\ clf = NoClassifier
    /\ featureMat = <<>>
    /\ call = [t \in {} |-> IdleCall]
    /\ fit = NoFit
    /\ tr = NoTraining
    /\ jobs = <<>>
    /\ UnitsIdle

\* new CSavedSVMState(path, label, boosterStates, featureSubset, svm, ...)
Save ==
    /\ ~file.exists
    /\ file' = SavedFile(trained)
    /\ svmFile' = SavedSVMFile(trained, svmFile)
    /\ UNCHANGED <<trained, loaded, runtimeVars, calibVars, trainVars, unitVars>>

\* new CSavedSVMState(path, label, dPrecision); line 331: fatal without the file.
Load(s, dPrecision) ==
    /\ loaded[s] = NoState
    /\ \A r \in Slots : r < s => loaded[r] # NoState
    /\ loaded' = [loaded EXCEPT ![s] =
                     IF ~file.exists THEN FatalState(dPrecision)
                     ELSE LoadedState(file, dPrecision)]
    /\ UNCHANGED <<trained, file, svmFile, runtimeVars, calibVars, trainVars, unitVars>>

NextPersist ==
    \/ Save
    \/ \E s \in Slots, dPrecision \in TargetPrecisions : Load(s, dPrecision)

SpecPersist == InitPersist /\ [][NextPersist]_vars

----------------------------------------------------------------------------
(* Input sets of the runtime specifications. *)

\* Persisted states a classifier is constructed from: those of TrainedCores,
\* a boosting-only state with a cascade stage, and a state file that names
\* an engine (sign correction 1) and an empty featureSubset.
RuntimeCores ==
    TrainedCores \cup
    { [boosterStates |-> <<CBoosterState(0, 3, FALSE)>>, featureSubset |-> EmptySelecter,
       dSignCorrection |-> 0, sigmoidParams |-> DefaultSigmoidParams],
      [boosterStates |-> <<>>, featureSubset |-> EmptySelecter,
       dSignCorrection |-> 1, sigmoidParams |-> CSigmoidParams(0, 1000, -2, 3)] }

\* Sigmoid parameters found in a file: the core's own, and parameters that
\* break one condition of validate each.
RuntimeSigmoids(core) ==
    { core.sigmoidParams,
      CSigmoidParams(100, 900, 0, 0),
      CSigmoidParams(900, 100, 0, 1),
      CSigmoidParams(500, 500, 0, 1),
      CSigmoidParams(-50, 900, 0, 1),
      CSigmoidParams(100, 1200, 0, 1) }

\* Engine models found in an engine file.
RuntimeEngines == {EngineModel(1, 0, FALSE), EngineModel(-2, 5, FALSE)}

RuntimeLookups ==
    { [first |-> <<>>, second |-> <<>>],
      [first |-> <<-10, 0, 10>>, second |-> <<50, 80, 95>>] }

RuntimePrecisions == {NO_PRECISION, 90}

\* What the feature providers compute (value_int), coefficient by coefficient.
ProviderFeatures == {<<1, -3>>, <<1, 1>>, <<4, -3>>, <<4, 1>>}

Ops == {"classify", "probability"}

\* One thread calling the classifier, and two.
OneCaller == {1}

TwoCallers == {1, 2}

----------------------------------------------------------------------------
(* The runtime specifications: a constructed classifier and its callers. *)

\* The state after CSVMClassifier's constructor has read the files of a
\* saved state.  stale: an engine file left on disk by an earlier run.
InitClassifier(callers, bOwnSigmoid, lookups, precisions) ==
    /\ \E core \in RuntimeCores, m \in RuntimeEngines, lk \in lookups,
          dPrecision \in precisions, stale \in BOOLEAN :
          \E sg \in (IF bOwnSigmoid THEN {core.sigmoidParams} ELSE RuntimeSigmoids(core)) :
            /\ core.dSignCorrection = 0 => lk = [first |-> <<>>, second |-> <<>>]
            /\ core.dSignCorrection # 0 => ~stale
            /\ trained = [boosterStates |-> core.boosterStates,
                          featureSubset |-> core.featureSubset,
                          svm |-> IF core.dSignCorrection = 0 THEN NoModel ELSE m,
                          dSignCorrection |-> core.dSignCorrection,
                          PRLookup |-> lk,
                          sigmoidParams |-> sg,
                          trainingDetails |-> "summary"]
            /\ file = SavedFile(trained)
            /\ svmFile = SavedSVMFile(trained,
                            IF stale THEN [exists |-> TRUE, model |-> m] ELSE NoFile)
            /\ clf = CSVMClassifier(file, svmFile, dPrecision)
            /\ clf.savedState.status = "loaded"
    /\ loaded = [s \in Slots |-> NoState]
    /\ featureMat = <<>>
    /\ call = [t \in callers |-> IdleCall]
    /\ fit = NoFit
    /\ tr = NoTraining
    /\ jobs = <<>>
    /\ UnitsIdle

\* A failed CHECK has ended the process.
Aborted == \E t \in DOMAIN call : call[t].pc = "fatal"

\* A caller enters classify or probability with a feature of its own.
Call(t, op, pdScore, prov) ==
    /\ ~Aborted
    /\ call[t].pc = "idle"
    /\ call' = [call EXCEPT ![t] =
                  [IdleCall EXCEPT !.pc = IF op = "probability" THEN "validate"
                                          ELSE "classify",
                                   !.op = op,
                                   !.pdScore = (op = "probability") /\ pdScore,
                                   !.prov = prov,
                                   !.cache = NewFeature(Len(prov))]]
    /\ UNCHANGED <<persistVars, clf, featureMat, calibVars, trainVars, unitVars>>

\* Line 601.
Validate(t) ==
    /\ ~Aborted
    /\ call[t].pc = "validate"
    /\ call' = [call EXCEPT ![t].pc =
                  IF validate(clf.savedState.sigmoidParams) THEN "classify"
                  ELSE "fatal"]
    /\ UNCHANGED <<persistVars, clf, featureMat, calibVars, trainVars, unitVars>>

\* Lines 584-590: the cascade, the sign test, and featureSubset.create.
Classify(t) ==
    /\ ~Aborted
    /\ call[t].pc = "classify"
    /\ LET e == ClassifyEntry(clf, call[t].cache, call[t].prov)
           n == Len(clf.savedState.featureSubset.anFeatureIdxSubset)
       IN  /\ call' = [call EXCEPT ![t].classifyCalled = TRUE,
                                   ![t].cache = e.cache,
                                   ![t].dScore = e.dScore,
                                   ![t].i = 1,
                                   ![t].pc = IF e.done THEN "classified"
                                             ELSE IF n = 0 THEN "predict"
                                             ELSE "select"]
           /\ featureMat' = IF e.done THEN featureMat ELSE Create(featureMat, n)
    /\ UNCHANGED <<persistVars, clf, calibVars, trainVars, unitVars>>

\* Lines 199-203: one turn of the loop writes one coefficient of the member
\* matrix.
SelectStep(t) ==
    /\ ~Aborted
    /\ call[t].pc = "select"
    /\ LET sel == clf.savedState.featureSubset
           i == call[t].i
           n == Len(sel.anFeatureIdxSubset)
       IN  /\ featureMat' =
                 [k \in 1..Max(n, Len(featureMat)) |->
                     IF k = i
                     THEN SelectedCoefficient(sel, call[t].cache, call[t].prov, i)
                     ELSE IF k <= Len(featureMat) THEN featureMat[k] ELSE 0]
           /\ call' = [call EXCEPT
                         ![t].cache = ValueCache(call[t].cache, call[t].prov,
                                                 sel.anFeatureIdxSubset[i]),
                         ![t].i = i + 1,
                         ![t].pc = IF i = n THEN "predict" ELSE "select"]
    /\ UNCHANGED <<persistVars, clf, calibVars, trainVars, unitVars>>

\* Lines 591-596.
Predict(t) ==
    /\ ~Aborted
    /\ call[t].pc = "predict"
    /\ call' = [call EXCEPT ![t].predicted = TRUE,
                            ![t].dScore = ScoreOf(clf, featureMat),
                            ![t].pc = "classified"]
    /\ UNCHANGED <<persistVars, clf, featureMat, calibVars, trainVars, unitVars>>

\* classify returns its score; probability goes on with lines 604-610.
Finish(t) ==
    /\ ~Aborted
    /\ call[t].pc = "classified"
    /\ LET dProb == prob(clf.savedState.sigmoidParams, call[t].dScore)
       IN  call' = [call EXCEPT ![t] =
              IF call[t].op = "classify"
              THEN [call[t] EXCEPT !.ret = call[t].dScore, !.pc = "returned"]
              ELSE [call[t] EXCEPT
                      !.scoreOut = IF call[t].pdScore
                                   THEN [written |-> TRUE, v |-> call[t].dScore]
                                   ELSE call[t].scoreOut,
                      !.ret = FracOfInt(dProb),
                      !.pc = IF IsProbability(dProb) THEN "returned" ELSE "fatal"]]
    /\ UNCHANGED <<persistVars, clf, featureMat, calibVars, trainVars, unitVars>>

\* The caller has its result and is free to call again.
Return(t) ==
    /\ ~Aborted
    /\ call[t].pc = "returned"
    /\ call' = [call EXCEPT ![t] = IdleCall]
    /\ UNCHANGED <<persistVars, clf, featureMat, calibVars, trainVars, unitVars>>

NextRuntime ==
    \/ \E t \in DOMAIN call, op \in Ops, pdScore \in BOOLEAN, prov \in ProviderFeatures :
          Call(t, op, pdScore, prov)
    \/ \E t \in DOMAIN call : Validate(t)
    \/ \E t \in DOMAIN call : Classify(t)
    \/ \E t \in DOMAIN call : SelectStep(t)
    \/ \E t \in DOMAIN call : Predict(t)
    \/ \E t \in DOMAIN call : Finish(t)
    \/ \E t \in DOMAIN call : Return(t)

InitRuntime == InitClassifier(OneCaller, FALSE, RuntimeLookups, RuntimePrecisions)

\* One thread makes calls one after the other.
SpecRuntime == InitRuntime /\ [][NextRuntime]_vars

InitConcurrent ==
    InitClassifier(TwoCallers, TRUE, {[first |-> <<>>, second |-> <<>>]},
                   {NO_PRECISION})

\* Two threads call the same classifier, each with a feature of its own.
SpecConcurrent == InitConcurrent /\ [][NextRuntime]_vars

----------------------------------------------------------------------------
(* Sigmoid calibration: fitSigmoid and CLMForSVMSigmoid.  The optimiser      *)
(* CLevMar is a black box: it evaluates the objective at parameter vectors   *)
(* of its choosing, steps to some of them, and returns the one it stands at. *)

\* Most evaluations of the objective the optimiser makes in one calibration.
MaxEvals == 2

\* Parameter vectors <<scale, shift, x2, x3>> the optimiser tries.
LMVectors ==
    {<<x0, x1, x2, x3>> : x0 \in {-1, 0, 2}, x1 \in {0, 5},
                          x2 \in {-8, -2, 0, 2, 8}, x3 \in {-8, -2, 0, 2, 8}}

\* Validation labels and the responses (tenths) the engine gave to them.
CalibData ==
    { [labels |-> <<1, -1>>, test_labels |-> <<5, -5>>, dSignCorrection |-> 1],
      [labels |-> <<1, -1, -1>>, test_labels |-> <<-20, 0, 15>>, dSignCorrection |-> -1] }

\* Line 49.
svmClass(fScore) == fScore > 0

\* Lines 818-821: the parameters an evaluation at x leaves in sigmoidParams.
ParamsOfVector(x) ==
    CSigmoidParams(logisticSigmoid(x[4]), logisticSigmoid(x[3]), x[2], x[1])

\* Lines 823-837: the residuals (thousandths) under parameters p.
Residuals(f, p) ==
    [i \in 1..Len(f.test_labels) |->
        prob(p, FracOfInt(f.dSignCorrection * f.test_labels[i]))
          - (IF svmClass(f.labels[i]) THEN 1000 ELSE 0)]

\* Lines 841-851.
LMInitVector(p) ==
    <<p.dScale, p.dShift, logisticSigmoid_inv(p.dThreshHi),
      logisticSigmoid_inv(p.dThreshLo)>>

\* fitSigmoid is entered (lines 860-863) with the sigmoid parameters the
\* destructor constructed at line 1825.
InitCalib ==
    /\ \E d \in CalibData :
          fit = [pc |-> "minimise",
                 labels |-> d.labels,
                 test_labels |-> d.test_labels,
                 dSignCorrection |-> d.dSignCorrection,
                 sigmoidParams |-> DefaultSigmoidParams,
                 params |-> LMInitVector(DefaultSigmoidParams),
                 x |-> LMInitVector(DefaultSigmoidParams),
                 resids |-> [i \in 1..Len(d.labels) |-> 0],
                 nEvals |-> 0]
    /\ trained = [dSignCorrection |-> 0]
    /\ file = NoFile
    /\ svmFile = NoFile
    /\ loaded = [s \in Slots |-> NoState]
    /\ clf = NoClassifier
    /\ featureMat = <<>>
    /\ call = [t \in {} |-> IdleCall]
    /\ tr = NoTraining
    /\ jobs = <<>>
    /\ UnitsIdle

\* The optimiser evaluates CLMForSVMSigmoid::function at x (lines 815-839).
Evaluate(x) ==
    /\ fit.pc = "minimise"
    /\ fit.nEvals < MaxEvals
    /\ fit' = [fit EXCEPT !.x = x,
                          !.sigmoidParams = ParamsOfVector(x),
                          !.resids = Residuals(fit, ParamsOfVector(x)),
                          !.nEvals = fit.nEvals + 1]
    /\ UNCHANGED <<persistVars, runtimeVars, trainVars, unitVars>>

\* The optimiser takes the step it tried last: the vector of the last
\* evaluation becomes the vector it stands at (params of line 864).
AcceptStep ==
    /\ fit.pc = "minimise"
    /\ fit.nEvals > 0
    /\ fit.params # fit.x
    /\ fit' = [fit EXCEPT !.params = fit.x]
    /\ UNCHANGED <<persistVars, runtimeVars, trainVars, unitVars>>

\* LM.minimise(params) returns with its answer in params (line 865): the
\* vector it stands at, a step tried after it being rejected.
EndMinimise ==
    /\ fit.pc = "minimise"
    /\ fit' = [fit EXCEPT !.pc = "validate"]
    /\ UNCHANGED <<persistVars, runtimeVars, trainVars, unitVars>>

\* Line 867.
ValidateFit ==
    /\ fit.pc = "validate"
    /\ fit' = [fit EXCEPT !.pc = IF validate(fit.sigmoidParams) THEN "done"
                                 ELSE "fatal"]
    /\ UNCHANGED <<persistVars, runtimeVars, trainVars, unitVars>>

NextCalib ==
    \/ \E x \in LMVectors : Evaluate(x)
    \/ AcceptStep
    \/ EndMinimise
    \/ ValidateFit

SpecCalib == InitCalib /\ [][NextCalib]_vars

----------------------------------------------------------------------------
(* CSVMTraining: the collected examples and the boosting cascade.           *)
(* aaadFeatures[FALSE] are the negative examples, aaadFeatures[TRUE] the     *)
(* positive ones, each a sequence of feature vectors.                        *)

\* Line 627: the folds of the cross-validation.
K == 6

\* Line 1807: fewest examples of a class a run trains from.
MinExamples == 20

\* Line 704: fewest negatives a cascade stage removes.
MinRemoved == 150

\* Line 1813.
bUseBoosting == FALSE

\* aaadFeatures[false][0].cols
NumDims(aaadFeatures) == Len(aaadFeatures[FALSE][1])

TBoosterCandidate(first, second) == [first |-> first, second |-> second]

\* Lines 667-677: the distinct values of coefficient nIdx over all examples.
OneFeatureValues(aaadFeatures, nIdx) ==
    UNION {{aaadFeatures[b][i][nIdx + 1] : i \in 1..Len(aaadFeatures[b])} : b \in BOOLEAN}

\* Lines 675-677: v sorts before u.
SortsBefore(v, u, bRejectAbove) == IF bRejectAbove THEN v > u ELSE v < u

\* Lines 682-689: dPos (bLabel TRUE) or dNeg (bLabel FALSE) once the loop has
\* passed every example whose value is v or sorts before v.
CountThrough(aaadFeatures, bLabel, nIdx, v, bRejectAbove) ==
    Cardinality({i \in 1..Len(aaadFeatures[bLabel]) :
                    \/ aaadFeatures[bLabel][i][nIdx + 1] = v
                    \/ SortsBefore(aaadFeatures[bLabel][i][nIdx + 1], v, bRejectAbove)})

\* A plausible slip of findBoosterState: the least number of negatives a
\* stage has to remove is not asked for.
findBoosterState_noMinimum(aaadFeatures, nIdx, bRejectAbove) ==
    LET vals == OneFeatureValues(aaadFeatures, nIdx)
        dPos(v) == CountThrough(aaadFeatures, TRUE, nIdx, v, bRejectAbove)
        dNeg(v) == CountThrough(aaadFeatures, FALSE, nIdx, v, bRejectAbove)
        splits == {v \in vals :
                      /\ \E u \in vals : SortsBefore(v, u, bRejectAbove)
                      /\ 10000 * dPos(v) < 5 * dNeg(v)}
        last == CHOOSE v \in splits :
                    \A u \in splits : u = v \/ SortsBefore(u, v, bRejectAbove)
        next == CHOOSE u \in vals :
                    /\ SortsBefore(last, u, bRejectAbove)
                    /\ \A w \in vals : SortsBefore(last, w, bRejectAbove)
                                          => (w = u \/ SortsBefore(u, w, bRejectAbove))
        dNumRemovedBelow == IF splits = {} THEN -1 ELSE dNeg(last)
        nNeg == Len(aaadFeatures[FALSE])
    IN  IF 10 * dNumRemovedBelow < nNeg
        THEN TBoosterCandidate(FracOfInt(0), CBoosterState(-1, HUGE, FALSE))
        ELSE TBoosterCandidate(Frac(dNumRemovedBelow, nNeg),
                               CBoosterState(nIdx, (last + next) \div 2, bRejectAbove))

\* Lines 663-714.  The loop of lines 681-698 can split only where a value
\* differs from the next one, that is after the last example of a value that
\* is not the last value; the split it keeps is the last one that passes the
\* test of line 692.  The examples' values are such that the threshold of
\* the kept split is whole.
findBoosterState(aaadFeatures, nIdx, bRejectAbove) ==
    LET vals == OneFeatureValues(aaadFeatures, nIdx)
        dPos(v) == CountThrough(aaadFeatures, TRUE, nIdx, v, bRejectAbove)
        dNeg(v) == CountThrough(aaadFeatures, FALSE, nIdx, v, bRejectAbove)
        splits == {v \in vals :
                      /\ \E u \in vals : SortsBefore(v, u, bRejectAbove)
                      /\ 10000 * dPos(v) < 5 * dNeg(v)}
        last == CHOOSE v \in splits :
                    \A u \in splits : u = v \/ SortsBefore(u, v, bRejectAbove)
        next == CHOOSE u \in vals :
                    /\ SortsBefore(last, u, bRejectAbove)
                    /\ \A w \in vals : SortsBefore(last, w, bRejectAbove)
                                          => (w = u \/ SortsBefore(u, w, bRejectAbove))
        dNumRemovedBelow == IF splits = {} THEN -1 ELSE dNeg(last)
        nNeg == Len(aaadFeatures[FALSE])
    IN  IF 10 * dNumRemovedBelow < nNeg \/ dNumRemovedBelow < MinRemoved
        THEN TBoosterCandidate(FracOfInt(0), CBoosterState(-1, HUGE, FALSE))
        ELSE TBoosterCandidate(Frac(dNumRemovedBelow, nNeg),
                               CBoosterState(nIdx, (last + next) \div 2, bRejectAbove))

\* Lines 760-765: candidate k of the double loop, both polarities over every
\* coefficient; a candidate replaces the best only when strictly better.
RECURSIVE BestBoosterCandidate(_, _, _)
BestBoosterCandidate(aaadFeatures, k, best) ==
    IF k >= 2 * NumDims(aaadFeatures) THEN best
    ELSE LET c == findBoosterState(aaadFeatures, k % NumDims(aaadFeatures),
                                   (k \div NumDims(aaadFeatures)) = 1)
         IN  BestBoosterCandidate(aaadFeatures, k + 1,
                 IF c.first.n * best.first.d > best.first.n * c.first.d THEN c ELSE best)

\* Lines 752-773.
findBestBoosterState(aaadFeatures) ==
    BestBoosterCandidate(aaadFeatures, 0,
        TBoosterCandidate(FracOfInt(0), CBoosterState(-1, HUGE, FALSE))).second

\* Lines 734-744: the examples a stage keeps.
FilterExamples(aaadFeatures, boosterState) ==
    [b \in BOOLEAN |->
        SelectSeq(aaadFeatures[b],
                  LAMBDA f : keepPotentialCandidate(boosterState,
                                                    f[boosterState.nFeatureIdx + 1]))]

\* Lines 721-750.  end "returned": the loop left at line 726; "fatal": the
\* CHECK of line 748; "undefined": findBestBoosterState read the first
\* negative example (line 761) when none was left.
RECURSIVE findBoosterStates(_, _)
findBoosterStates(aaadFeatures, aBoosterStates) ==
    IF Len(aaadFeatures[FALSE]) = 0
    THEN [end |-> "undefined", aBoosterStates |-> aBoosterStates,
          aaadFeatures |-> aaadFeatures]
    ELSE LET boosterState == findBestBoosterState(aaadFeatures)
             filtered == FilterExamples(aaadFeatures, boosterState)
         IN  IF boosterState.nFeatureIdx < 0
             THEN [end |-> "returned", aBoosterStates |-> aBoosterStates,
                   aaadFeatures |-> aaadFeatures]
             ELSE IF Len(filtered[FALSE]) >= Len(aaadFeatures[FALSE])
             THEN [end |-> "fatal", aBoosterStates |-> Append(aBoosterStates, boosterState),
                   aaadFeatures |-> filtered]
             ELSE findBoosterStates(filtered, Append(aBoosterStates, boosterState))

----------------------------------------------------------------------------
(* CFeatureSubsetSelecter: normalising coefficients, selection. *)

\* The sum of the elements of q that have a value in vals.
RECURSIVE SumOfValues(_, _)
SumOfValues(q, vals) ==
    IF vals = {} THEN 0
    ELSE LET v == CHOOSE x \in vals : TRUE
         IN  v * Cardinality({i \in 1..Len(q) : q[i] = v}) + SumOfValues(q, vals \ {v})

\* The sum of the elements of q.
SumSeq(q) == SumOfValues(q, {q[i] : i \in 1..Len(q)})

\* The whole-number part of the square root of n.
ISqrt(n) == CHOOSE r \in 0..n : r * r <= n /\ (r + 1) * (r + 1) > n

\* The function f on 1..n as a sequence with its elements worked out.
AsSeq(f) == SubSeq(f, 1, Len(f))

\* A value for each class: neg for the negatives, pos for the positives.
ByClass(neg, pos) == (FALSE :> neg) @@ (TRUE :> pos)

\* meanSD of the utility library: mean and standard deviation of the values,
\* in whole numbers (exact on the model's examples).
meanSD(adVals) ==
    LET dMean == SumSeq(adVals) \div Len(adVals)
        dev == AsSeq([i \in 1..Len(adVals) |-> (adVals[i] - dMean) * (adVals[i] - dMean)])
    IN  [dMean |-> dMean, dSD |-> ISqrt(SumSeq(dev) \div Len(adVals))]

\* Lines 239-256: mean and scale of coefficient nFeature; 1.0 / dSD in whole
\* numbers (exact for a deviation of 1).
findNormalisingCoeffs1(aaadFeatures, nFeature) ==
    LET adVals == [i \in 1..Len(aaadFeatures[FALSE]) |-> aaadFeatures[FALSE][i][nFeature + 1]]
                    \o [i \in 1..Len(aaadFeatures[TRUE]) |-> aaadFeatures[TRUE][i][nFeature + 1]]
        m == meanSD(adVals)
    IN  [dMean |-> m.dMean, dScale |-> IF m.dSD > 0 THEN 1 \div m.dSD ELSE 1]

\* Lines 258-276: the selecter with its coefficients set (the subset is left
\* as it is); fatal: the CHECK of line 269.
findNormalisingCoeffs(sel, aaadFeatures) ==
    LET nDims == NumDims(aaadFeatures)
        c == AsSeq([nFeature \in 1..nDims |->
                      findNormalisingCoeffs1(aaadFeatures, nFeature - 1)])
    IN  [fatal |-> \E nFeature \in 1..nDims : c[nFeature].dScale = 0,
         sel |-> CFeatureSubsetSelecter(sel.anFeatureIdxSubset,
                                        AsSeq([nFeature \in 1..nDims |-> c[nFeature].dMean]),
                                        AsSeq([nFeature \in 1..nDims |-> c[nFeature].dScale]))]

\* Lines 216-237, without the CHECKs: the reduced, normalised vector.
selectAndNormalise(sel, feature) ==
    AsSeq([i \in 1..Len(sel.anFeatureIdxSubset) |->
              ToFloat(sel.adNormalisingScale[sel.anFeatureIdxSubset[i] + 1]
                        * (feature[sel.anFeatureIdxSubset[i] + 1]
                             - sel.adNormalisingMean[sel.anFeatureIdxSubset[i] + 1]))])

\* Lines 1267-1293: the examples reduced and normalised; fatal: the CHECKs of
\* lines 220, 234 and 1290.
selectFeatureSubset(aaadFeatures, sel) ==
    LET reduced(b) == AsSeq([i \in 1..Len(aaadFeatures[b]) |->
                                selectAndNormalise(sel, aaadFeatures[b][i])])
    IN  [fatal |-> \/ Len(sel.anFeatureIdxSubset) = 0
                   \/ \E b \in BOOLEAN : Len(aaadFeatures[b]) = 0,
         aaadFeatureSubset |-> ByClass(reduced(FALSE), reduced(TRUE))]

----------------------------------------------------------------------------
(* Scoring: propCorrect and what it calls. *)

\* Lines 1064-1067.
svmScore(bLabel) == IF bLabel THEN 1 ELSE -1

\* Lines 1739-1751.  The weights are kept times nNumNeg, which leaves every
\* ratio of weighted sums as it is: row FALSE is fNegativeScore, row TRUE is
\* svmScore(true).
computeNegWeight(fNegRelativeWeight, nNumPos, nNumNeg) ==
    [b \in BOOLEAN |-> IF b THEN svmScore(TRUE) * nNumNeg
                       ELSE -fNegRelativeWeight * nNumPos]

\* 0/0 in a double, as a precision or a rate; also a bad number of a provider.
NaN == -99999

\* Lines 964-997; the rate in thousandths, rounded down.  The weighted sums
\* are taken class by class.
computeTotalSuccessRate(labels, test_labels, pClassWeights) ==
    LET nExamples(b) == Cardinality({i \in 1..Len(labels) : svmClass(labels[i]) = b})
        nErrors(b) == Cardinality({i \in 1..Len(labels) :
                                      /\ svmClass(labels[i]) = b
                                      /\ svmClass(test_labels[i]) # b})
        dTotalScore == Abs(pClassWeights[FALSE]) * nExamples(FALSE)
                         + Abs(pClassWeights[TRUE]) * nExamples(TRUE)
        dTotalErrorScore == Abs(pClassWeights[FALSE]) * nErrors(FALSE)
                              + Abs(pClassWeights[TRUE]) * nErrors(TRUE)
    IN  IF dTotalScore = 0
        THEN [dSignCorrection |-> -1, dTotalSuccessRate |-> NaN]
        ELSE IF 2 * dTotalErrorScore < dTotalScore
        THEN [dSignCorrection |-> 1,
              dTotalSuccessRate |-> (1000 * (dTotalScore - dTotalErrorScore)) \div dTotalScore]
        ELSE [dSignCorrection |-> -1,
              dTotalSuccessRate |-> (1000 * dTotalErrorScore) \div dTotalScore]

\* A plausible slip of computeBSR: the rates of the classes are added whole.
computeBSR_noHalf(labels, test_labels, dSignCorrection) ==
    LET dExamples(b) == Cardinality({i \in 1..Len(labels) : svmClass(labels[i]) = b})
        dErrors(b) == Cardinality({i \in 1..Len(labels) :
                                      /\ svmClass(labels[i]) = b
                                      /\ svmClass(dSignCorrection * test_labels[i]) # b})
        dClassSuccessRate(b) == (1000 * (dExamples(b) - dErrors(b))) \div dExamples(b)
    IN  IF dExamples(FALSE) = 0 \/ dExamples(TRUE) = 0 THEN NaN
        ELSE dClassSuccessRate(FALSE) + dClassSuccessRate(TRUE)

\* Lines 1027-1062; the balanced success rate in thousandths, rounded down.
\* A class without examples makes its rate 0/0.
computeBSR(labels, test_labels, dSignCorrection) ==
    LET dExamples(b) == Cardinality({i \in 1..Len(labels) : svmClass(labels[i]) = b})
        dErrors(b) == Cardinality({i \in 1..Len(labels) :
                                      /\ svmClass(labels[i]) = b
                                      /\ svmClass(dSignCorrection * test_labels[i]) # b})
        dClassSuccessRate(b) == (1000 * (dExamples(b) - dErrors(b))) \div dExamples(b)
    IN  IF dExamples(FALSE) = 0 \/ dExamples(TRUE) = 0 THEN NaN
        ELSE (dClassSuccessRate(FALSE) + dClassSuccessRate(TRUE)) \div 2

\* Lines 999-1025; the precision in hundredths, rounded down.
computePrecision(labels, test_labels, dSignCorrection) ==
    LET nNumLabelledCorrect ==
            Cardinality({i \in 1..Len(labels) : svmClass(dSignCorrection * test_labels[i])})
        nNumActuallyCorrect ==
            Cardinality({i \in 1..Len(labels) :
                            svmClass(dSignCorrection * test_labels[i]) /\ svmClass(labels[i])})
    IN  IF nNumLabelledCorrect = 0 THEN NaN
        ELSE (100 * nNumActuallyCorrect) \div nNumLabelledCorrect

\* Lines 870-962 without the sigmoid fit of line 958.  threw: svm.predict
\* threw and line 908 returned 0 with the outputs untouched.
propCorrect(svm, features, labels, dSignCorrection, dPrecision, dBoundary, pClassWeights) ==
    LET test_labels == AsSeq([i \in 1..Len(labels) |->
                                 ToFloat(RawPredict(svm, features[i]) - dBoundary)])
        rate == computeTotalSuccessRate(labels, test_labels, pClassWeights)
    IN  IF svm.throws
        THEN [threw |-> TRUE, ret |-> 0, dSignCorrection |-> dSignCorrection,
              dPrecision |-> dPrecision, test_labels |-> [i \in 1..Len(labels) |-> 0]]
        ELSE [threw |-> FALSE, ret |-> rate.dTotalSuccessRate,
              dSignCorrection |-> rate.dSignCorrection,
              dPrecision |-> computePrecision(labels, test_labels, rate.dSignCorrection),
              test_labels |-> test_labels]

----------------------------------------------------------------------------
(* Cross-validation sets, hyperparameter points, candidate subsets. *)

\* Lines 1079-1122.  Of each class the examples nValidateBlockStart up to
\* nValidateBlockEnd go to the validation set, the others to the training
\* set, negatives first; fatal: a CHECK of lines 1108-1115.
CTrainValidateFeatureSet(aaadFeatureSubset, nSubset, nK) ==
    LET nNumFeatures(b) == Len(aaadFeatureSubset[b])
        nValidateBlockStart(b) == (nNumFeatures(b) * nSubset) \div nK
        nValidateBlockEnd(b) == (nNumFeatures(b) * (nSubset + 1)) \div nK
        eValidate(b) == SubSeq(aaadFeatureSubset[b],
                               nValidateBlockStart(b) + 1, nValidateBlockEnd(b))
        eTrain(b) == SubSeq(aaadFeatureSubset[b], 1, nValidateBlockStart(b))
                       \o SubSeq(aaadFeatureSubset[b],
                                 nValidateBlockEnd(b) + 1, nNumFeatures(b))
        labelsOf(q, b) == AsSeq([i \in 1..Len(q) |-> svmScore(b)])
        trainFeatures == eTrain(FALSE) \o eTrain(TRUE)
        validateFeatures == eValidate(FALSE) \o eValidate(TRUE)
    IN  [fatal |-> Len(trainFeatures) = 0 \/ Len(validateFeatures) = 0,
         trainFeatures |-> trainFeatures,
         trainLabels |-> labelsOf(eTrain(FALSE), FALSE) \o labelsOf(eTrain(TRUE), TRUE),
         validateFeatures |-> validateFeatures,
         validateLabels |-> labelsOf(eValidate(FALSE), FALSE)
                              \o labelsOf(eValidate(TRUE), TRUE)]

\* Lines 1158-1168: a hyperparameter point; nu stands for the pair (nu,
\* gamma).  The score is in thousandths.
CSVMParameterisation(nu) == [nu |-> nu, dCVScore |-> -1000, dNumSVs |-> -1]

\* Lines 1432-1495: the points of the grid, here two.
getHyperparamSets == <<CSVMParameterisation(1), CSVMParameterisation(2)>>

\* svm.get_support_vector_count() of a trained engine.
SupportVectorCount(svm) == IF svm.isTrained THEN 2 ELSE 0

\* Lines 1575-1577: the best point of a subset; a later point replaces the
\* best only when strictly better.
RECURSIVE BestParameterisation(_, _, _)
BestParameterisation(aParameterisations, i, best) ==
    IF i > Len(aParameterisations) THEN best
    ELSE BestParameterisation(aParameterisations, i + 1,
             IF aParameterisations[i].dCVScore > best.dCVScore
             THEN aParameterisations[i] ELSE best)

\* Lines 1617-1626: the points keyed by score, greatest first; of the points
\* of one score the last one stays.
RECURSIVE SortedParams(_, _)
SortedParams(aParameterisations, scores) ==
    IF scores = {} THEN <<>>
    ELSE LET top == CHOOSE x \in scores : \A y \in scores : y <= x
             i == CHOOSE j \in 1..Len(aParameterisations) :
                     /\ aParameterisations[j].dCVScore = top
                     /\ \A l \in 1..Len(aParameterisations) :
                           aParameterisations[l].dCVScore = top => l <= j
         IN  <<aParameterisations[i]>> \o SortedParams(aParameterisations, scores \ {top})

\* Lines 1607-1627.
filterHyperparameters(aParameterisations) ==
    IF Len(aParameterisations) <= K THEN aParameterisations
    ELSE LET sorted == SortedParams(aParameterisations,
                          {aParameterisations[i].dCVScore : i \in 1..Len(aParameterisations)})
         IN  SubSeq(sorted, 1, Min(K, Len(sorted)))

\* a < b in the order of std::set<TFeatureIdxSubset>.
RECURSIVE LexLess(_, _)
LexLess(a, b) ==
    IF Len(b) = 0 THEN FALSE
    ELSE IF Len(a) = 0 THEN TRUE
    ELSE IF a[1] # b[1] THEN a[1] < b[1]
    ELSE LexLess(Tail(a), Tail(b))

\* The elements of a std::set<TFeatureIdxSubset> in the order of iteration.
RECURSIVE SetInOrder(_)
SetInOrder(S) ==
    IF S = {} THEN <<>>
    ELSE LET least == CHOOSE a \in S : \A b \in S : b = a \/ LexLess(a, b)
         IN  <<least>> \o SetInOrder(S \ {least})

\* Lines 1503-1521.
makeNewSubsets_backwards(bestFeatureSubsetThisSize) ==
    SetInOrder({SelectSeq(bestFeatureSubsetThisSize, LAMBDA nKeep : nKeep # nRemove) :
                   nRemove \in {bestFeatureSubsetThisSize[i] :
                                   i \in 1..Len(bestFeatureSubsetThisSize)}})

\* Lines 1523-1541.
makeNewSubsets_forwards(bestFeatureSubsetThisSize, nDims) ==
    SetInOrder({Append(bestFeatureSubsetThisSize, i) :
                   i \in {j \in 0..(nDims - 1) :
                             \A l \in 1..Len(bestFeatureSubsetThisSize) :
                                 bestFeatureSubsetThisSize[l] # j}})

\* The directory of the trainer without a featureSet file.
NoFeatureSet == [exists |-> FALSE, numbers |-> <<>>]

\* Lines 1636-1645: the numbers of the featureSet file are read up to the
\* first negative one; a number that is no index of a coefficient is fatal.
RECURSIVE ReadFeatureSet(_, _, _)
ReadFeatureSet(numbers, nDims, candidateSubset) ==
    IF Len(numbers) = 0 \/ Head(numbers) < 0
    THEN [fatal |-> FALSE, candidateSubset |-> candidateSubset]
    ELSE IF Head(numbers) >= nDims
    THEN [fatal |-> TRUE, candidateSubset |-> candidateSubset]
    ELSE ReadFeatureSet(Tail(numbers), nDims, Append(candidateSubset, Head(numbers)))

\* Lines 1629-1663.
setupFeatureSelection(featureSelectionMode, nDims, featureSet) ==
    IF featureSet.exists
    THEN LET read == ReadFeatureSet(featureSet.numbers, nDims, <<>>)
         IN  [fatal |-> read.fatal,
              featureSelectionMode |-> "eLoadFromFile",
              candidateSubsetsToTry |-> <<read.candidateSubset>>]
    ELSE [fatal |-> FALSE,
          featureSelectionMode |-> featureSelectionMode,
          candidateSubsetsToTry |->
              IF featureSelectionMode \in {"eBFS", "eNoFS"}
              THEN <<[i \in 1..nDims |-> i - 1]>>
              ELSE makeNewSubsets_forwards(<<>>, nDims)]

----------------------------------------------------------------------------
(* Input sets of the training specification. *)

\* n copies of the feature vector v.
Repeat(v, n) == [i \in 1..n |-> v]

\* The examples collected before the trainer is destroyed.  "small": twenty
\* of each class, one of each on the wrong side of coefficient 0, coefficient
\* 1 constant.  "separable": 20 positives and 160 negatives that coefficient
\* 0 separates.  "tooFew": 19 positives.  "tooFewNeg": 19 negatives.
Examples(name) ==
    CASE name = "small" ->
            [b \in BOOLEAN |->
                IF b THEN Repeat(<<3, 5>>, 19) \o <<<<1, 5>>>>
                ELSE <<<<3, 5>>>> \o Repeat(<<1, 5>>, 19)]
      [] name = "separable" ->
            [b \in BOOLEAN |->
                IF b THEN Repeat(<<5>>, 20)
                ELSE Repeat(<<3>>, 140) \o Repeat(<<2>>, 10) \o Repeat(<<0>>, 10)]
      [] name = "tooFew" ->
            [b \in BOOLEAN |->
                IF b THEN Repeat(<<3>>, 19) ELSE Repeat(<<1>>, 20)]
      [] name = "tooFewNeg" ->
            [b \in BOOLEAN |->
                IF b THEN Repeat(<<3>>, 20) ELSE Repeat(<<1>>, 19)]

ExampleSets == {"small", "separable", "tooFew", "tooFewNeg"}

FeatureSelectionModes == {"eNoFS", "eBFS", "eFFS"}

\* What svm.train does with a training set: it throws, or it leaves a model;
\* the second model throws in predict.
TrainOutcomes ==
    { [threw |-> TRUE, svm |-> NoModel],
      [threw |-> FALSE, svm |-> EngineModel(1, 0, FALSE)],
      [threw |-> FALSE, svm |-> EngineModel(1, 0, TRUE)] }

\* What the engine does in the course of one job: an outcome of svm.train for
\* each cross-validation set in turn, up to the first throw of svm.train.  The
\* models of one job are alike, the hyperparameters being the same.
JobRunsOf(nK) ==
    {q \in UNION {[1..n -> TrainOutcomes] : n \in 1..nK} :
        /\ \A i \in 1..(Len(q) - 1) : ~q[i].threw /\ q[i] = q[1]
        /\ Len(q) < nK => q[Len(q)].threw
        /\ ~q[Len(q)].threw => q[Len(q)] = q[1]}

\* The same for the K cross-validation sets of the trainer.
JobRuns == JobRunsOf(K)

\* What becomes of an exception that leaves a job of the thread pool: the
\* process ends, or the pool drops the job.
JobFates == {"terminated", "failed"}

\* The featureSet file of the directory: none, one naming the second
\* coefficient, one naming the first coefficient twice, one naming a
\* coefficient the examples do not have.
FeatureSetFiles ==
    {NoFeatureSet,
     [exists |-> TRUE, numbers |-> <<1>>],
     [exists |-> TRUE, numbers |-> <<0, 0, -1, 1>>],
     [exists |-> TRUE, numbers |-> <<2>>]}

\* Parameter vectors the optimiser leaves the sigmoid fit at.
FitVectors == {<<2, 0, 2, -2>>, <<2, 0, -2, 2>>}

----------------------------------------------------------------------------
(* The training specification: the destructor of CSVMTraining. *)

\* A job of the pool.  threw: where the engine threw in the job ("train",
\* "predict"); dThrewScore: the sum of the scores of the cross-validation
\* sets on which it threw in predict.
NewJob == [status |-> "queued", threw |-> {}, dThrewScore |-> 0]

\* The trainer as its destructor is entered.
InitTrain ==
    /\ \E name \in ExampleSets, mode \in FeatureSelectionModes, bFilter \in BOOLEAN,
          featureSet \in FeatureSetFiles :
          tr = [pc |-> "destruct",
                featureSet |-> featureSet,
                examples |-> name,
                aaadFeatures |-> Examples(name),
                fNegRelativeWeight |-> 1,
                featureSelectionMode |-> mode,
                bFilterHyperparams |-> bFilter,
                pClassWeights |-> [b \in BOOLEAN |-> 0],
                aBoosterStates |-> <<>>,
                featureSubset |-> EmptySelecter,
                svm |-> NoModel,
                dSignFix |-> 0,
                PRLookup |-> [first |-> <<>>, second |-> <<>>],
                adSignFix |-> <<>>,
                sigmoidParams |-> DefaultSigmoidParams,
                candidateSubsetsToTry |-> <<>>,
                nCand |-> 0,
                nSubsetSize |-> 0,
                aParameterisations |-> <<>>,
                bestParameterisationForSubsetsThisSize |-> CSVMParameterisation(-1),
                bestFeatureSubsetThisSize |-> <<>>,
                bestParameterisationOverall |-> CSVMParameterisation(-1),
                bestFeatureSubsetOverall |-> <<>>,
                evaluated |-> {}]
    /\ jobs = <<>>
    /\ UnitsIdle
    /\ trained = [dSignCorrection |-> 0]
    /\ file = NoFile
    /\ svmFile = NoFile
    /\ loaded = [s \in Slots |-> NoState]
    /\ clf = NoClassifier
    /\ featureMat = <<>>
    /\ call = [t \in {} |-> IdleCall]
    /\ fit = NoFit

\* Lines 1697-1699 and 1713-1724: the loop over the subset sizes goes on from
\* the end of the loop over the candidates.
RECURSIVE EndOfSize(_)
EndOfSize(t) ==
    LET bBetter == t.bestParameterisationForSubsetsThisSize.dCVScore
                      >= t.bestParameterisationOverall.dCVScore
        t1 == [t EXCEPT
                 !.bestParameterisationOverall =
                     IF bBetter THEN t.bestParameterisationForSubsetsThisSize ELSE @,
                 !.bestFeatureSubsetOverall =
                     IF bBetter THEN t.bestFeatureSubsetThisSize ELSE @]
        t2 == [t1 EXCEPT
                 !.candidateSubsetsToTry =
                     IF t.featureSelectionMode = "eFFS"
                     THEN makeNewSubsets_forwards(t.bestFeatureSubsetThisSize,
                                                  NumDims(t.aaadFeatures))
                     ELSE makeNewSubsets_backwards(t.bestFeatureSubsetThisSize),
                 !.nSubsetSize = t.nSubsetSize - 1,
                 !.bestParameterisationForSubsetsThisSize = CSVMParameterisation(-1),
                 !.bestFeatureSubsetThisSize = <<>>,
                 !.nCand = 1]
    IN  IF t.featureSelectionMode \in {"eLoadFromFile", "eNoFS"}
        THEN [t1 EXCEPT !.pc = "trainOnAll"]
        ELSE IF t2.nSubsetSize <= 0
        THEN [t2 EXCEPT !.pc = "trainOnAll"]
        ELSE IF Len(t2.candidateSubsetsToTry) = 0
        THEN EndOfSize(t2)
        ELSE [t2 EXCEPT !.pc = "subset"]

\* Lines 1817-1831 and 1673-1691: what follows the boosting.
AfterBoosting(t, boost) ==
    LET aaad == boost.aaadFeatures
        nNumPos == Len(aaad[TRUE])
        nNumNeg == Len(aaad[FALSE])
        coeffs == findNormalisingCoeffs(t.featureSubset, aaad)
        t1 == [t EXCEPT !.aaadFeatures = aaad,
                        !.aBoosterStates = boost.aBoosterStates]
        setup == setupFeatureSelection(t.featureSelectionMode, NumDims(aaad), t.featureSet)
    IN  IF nNumPos > 0 /\ nNumNeg > 0
        THEN IF coeffs.fatal \/ setup.fatal
             THEN [t1 EXCEPT !.pc = "fatal"]
             ELSE [t1 EXCEPT
                     !.pClassWeights = computeNegWeight(t.fNegRelativeWeight, nNumPos, nNumNeg),
                     !.featureSubset = coeffs.sel,
                     !.featureSelectionMode = setup.featureSelectionMode,
                     !.candidateSubsetsToTry = setup.candidateSubsetsToTry,
                     !.aParameterisations = getHyperparamSets,
                     !.nSubsetSize = NumDims(aaad),
                     !.nCand = 1,
                     !.pc = "subset"]
        ELSE [t1 EXCEPT !.pc = "save"]

\* A plausible slip of the destructor: only the positives are counted.
Destruct_positivesOnly ==
    /\ tr.pc = "destruct"
    /\ LET nNumPos == Len(tr.aaadFeatures[TRUE])
           nNumNeg == Len(tr.aaadFeatures[FALSE])
           boost == IF bUseBoosting THEN findBoosterStates(tr.aaadFeatures, <<>>)
                    ELSE [end |-> "returned", aBoosterStates |-> <<>>,
                          aaadFeatures |-> tr.aaadFeatures]
       IN  IF nNumPos < MinExamples
           THEN tr' = [tr EXCEPT !.pc = "insufficient"]
           ELSE \E end \in (IF boost.end = "undefined" THEN {"terminated", "returned"}
                            ELSE {boost.end}) :
                   tr' = IF end = "returned" THEN AfterBoosting(tr, boost)
                         ELSE [tr EXCEPT !.pc = end]
    /\ UNCHANGED <<persistVars, runtimeVars, calibVars, jobs, unitVars>>

\* Lines 1799-1831, up to the first hyperparameter jobs.
Destruct ==
    /\ tr.pc = "destruct"
    /\ LET nNumPos == Len(tr.aaadFeatures[TRUE])
           nNumNeg == Len(tr.aaadFeatures[FALSE])
           boost == IF bUseBoosting THEN findBoosterStates(tr.aaadFeatures, <<>>)
                    ELSE [end |-> "returned", aBoosterStates |-> <<>>,
                          aaadFeatures |-> tr.aaadFeatures]
       IN  IF nNumPos < MinExamples \/ nNumNeg < MinExamples
           THEN tr' = [tr EXCEPT !.pc = "insufficient"]
           ELSE \E end \in (IF boost.end = "undefined" THEN {"terminated", "returned"}
                            ELSE {boost.end}) :
                   tr' = IF end = "returned" THEN AfterBoosting(tr, boost)
                         ELSE [tr EXCEPT !.pc = end]
    /\ UNCHANGED <<persistVars, runtimeVars, calibVars, jobs, unitVars>>

\* The examples of the subset under test, reduced and normalised, as
\* CKfoldTrainValidateFeatureSet holds them.
FeatureSubsetOf(t) == selectFeatureSubset(t.aaadFeatures, t.featureSubset)

\* Lines 1700-1703, 1554-1573: the next candidate subset is set, the
\* cross-validation sets are built and one job per point is queued.
StartSubset ==
    /\ tr.pc = "subset"
    /\ LET t1 == [tr EXCEPT !.featureSubset.anFeatureIdxSubset =
                               tr.candidateSubsetsToTry[tr.nCand]]
           sub == FeatureSubsetOf(t1)
           bFatal == \/ sub.fatal
                     \/ \E i \in 0..(K - 1) :
                           CTrainValidateFeatureSet(sub.aaadFeatureSubset, i, K).fatal
       IN  IF bFatal
           THEN /\ tr' = [t1 EXCEPT !.pc = "fatal"]
                /\ UNCHANGED jobs
           ELSE /\ tr' = [t1 EXCEPT !.pc = "waiting"]
                /\ jobs' = [j \in 1..Len(tr.aParameterisations) |-> NewJob]
    /\ UNCHANGED <<persistVars, runtimeVars, calibVars, unitVars>>

\* Lines 1145-1150: the score of a trained engine on the validation set.
validateFold(split, svm, pClassWeights) ==
    propCorrect(svm, split.validateFeatures, split.validateLabels, 0, 0, 0, pClassWeights)

\* Lines 1124-1137: for each cross-validation set from set nSubset on, what
\* trainAndValidate returns with each model svm.train can leave.
RECURSIVE FoldTable(_, _, _)
FoldTable(aaadFeatureSubset, pClassWeights, nSubset) ==
    IF nSubset >= K THEN <<>>
    ELSE LET split == CTrainValidateFeatureSet(aaadFeatureSubset, nSubset, K)
         IN  <<{<<o, validateFold(split, o.svm, pClassWeights)>> :
                    o \in {x \in TrainOutcomes : ~x.threw}}>>
               \o FoldTable(aaadFeatureSubset, pClassWeights, nSubset + 1)

\* The results of the cross-validation sets the job gets through when the
\* engine does q.
FoldResults(table, q) ==
    [i \in 1..(IF q[Len(q)].threw THEN Len(q) - 1 ELSE Len(q)) |->
        (CHOOSE p \in table[i] : p[1] = q[i])[2]]

\* Lines 1380-1406: job j runs trainAndValidate for its point.  An exception
\* of svm.train leaves the job with the score of the point as it was.
JobRun(j) ==
    /\ tr.pc = "waiting"
    /\ jobs[j].status = "queued"
    /\ \E table \in {FoldTable(FeatureSubsetOf(tr).aaadFeatureSubset, tr.pClassWeights, 0)} :
       \E q \in JobRuns :
          LET r == FoldResults(table, q)
              bTrainThrew == q[Len(q)].threw
              dKFoldCVScore == SumSeq([i \in 1..Len(r) |-> r[i].ret])
              dAvNumSVs == SumSeq([i \in 1..Len(r) |-> SupportVectorCount(q[i].svm)])
              threw == (IF bTrainThrew THEN {"train"} ELSE {})
                         \cup (IF \E i \in 1..Len(r) : r[i].threw THEN {"predict"} ELSE {})
              dThrewScore == SumSeq([i \in 1..Len(r) |-> IF r[i].threw THEN r[i].ret ELSE 0])
          IN  /\ jobs' = [jobs EXCEPT ![j] =
                            [status |-> IF bTrainThrew THEN "failed" ELSE "done",
                             threw |-> threw,
                             dThrewScore |-> dThrewScore]]
              /\ IF bTrainThrew
                 THEN \E fate \in JobFates :
                         tr' = IF fate = "terminated" THEN [tr EXCEPT !.pc = "terminated"]
                               ELSE tr
                 ELSE tr' = [tr EXCEPT
                               !.aParameterisations[j].dCVScore =
                                   (dKFoldCVScore \div K)
                                     - 3 * Len(tr.featureSubset.anFeatureIdxSubset),
                               !.aParameterisations[j].dNumSVs = dAvNumSVs \div K]
    /\ UNCHANGED <<persistVars, runtimeVars, calibVars, unitVars>>

\* A plausible slip of the search: a subset replaces the best of its size on
\* an equal score too.
FinishSubset_lastSubsetWins ==
    /\ tr.pc = "waiting"
    /\ \A j \in DOMAIN jobs : jobs[j].status \in {"done", "failed"}
    /\ LET anFeatureSubset == tr.candidateSubsetsToTry[tr.nCand]
           bestParameterisationForThisSubset ==
               BestParameterisation(tr.aParameterisations, 1, CSVMParameterisation(-1))
           bFilter == tr.bFilterHyperparams
                        /\ Len(anFeatureSubset) > NumDims(tr.aaadFeatures) \div 3
           bBetter == bestParameterisationForThisSubset.dCVScore
                         >= tr.bestParameterisationForSubsetsThisSize.dCVScore
           t1 == [tr EXCEPT
                    !.aParameterisations =
                        IF bFilter THEN filterHyperparameters(@) ELSE @,
                    !.bestParameterisationForSubsetsThisSize =
                        IF bBetter THEN bestParameterisationForThisSubset ELSE @,
                    !.bestFeatureSubsetThisSize =
                        IF bBetter THEN anFeatureSubset ELSE @,
                    !.evaluated =
                        @ \cup {[nSize |-> tr.nSubsetSize,
                                 nCand |-> tr.nCand,
                                 anFeatureSubset |-> anFeatureSubset,
                                 nPoint |-> j,
                                 nu |-> tr.aParameterisations[j].nu,
                                 dCVScore |-> tr.aParameterisations[j].dCVScore,
                                 bScored |-> jobs[j].status = "done"] :
                                    j \in DOMAIN jobs}]
       IN  tr' = IF tr.nCand < Len(tr.candidateSubsetsToTry)
                 THEN [t1 EXCEPT !.nCand = @ + 1, !.pc = "subset"]
                 ELSE EndOfSize(t1)
    /\ jobs' = <<>>
    /\ UNCHANGED <<persistVars, runtimeVars, calibVars, unitVars>>

\* Lines 1571-1585 and 1705-1724: waitForAll has returned; the best point of
\* the subset is taken and the search moves on.  evaluated is a history of
\* the search, not a variable of the program: for each subset, in the order
\* of the loops (nSize downwards, nCand and nPoint upwards), the score the
\* loop of lines 1578-1581 read for each point, and whether the job of the
\* point had set it on this subset.
FinishSubset ==
    /\ tr.pc = "waiting"
    /\ \A j \in DOMAIN jobs : jobs[j].status \in {"done", "failed"}
    /\ LET anFeatureSubset == tr.candidateSubsetsToTry[tr.nCand]
           bestParameterisationForThisSubset ==
               BestParameterisation(tr.aParameterisations, 1, CSVMParameterisation(-1))
           bFilter == tr.bFilterHyperparams
                        /\ Len(anFeatureSubset) > NumDims(tr.aaadFeatures) \div 3
           bBetter == bestParameterisationForThisSubset.dCVScore
                         > tr.bestParameterisationForSubsetsThisSize.dCVScore
           t1 == [tr EXCEPT
                    !.aParameterisations =
                        IF bFilter THEN filterHyperparameters(@) ELSE @,
                    !.bestParameterisationForSubsetsThisSize =
                        IF bBetter THEN bestParameterisationForThisSubset ELSE @,
                    !.bestFeatureSubsetThisSize =
                        IF bBetter THEN anFeatureSubset ELSE @,
                    !.evaluated =
                        @ \cup {[nSize |-> tr.nSubsetSize,
                                 nCand |-> tr.nCand,
                                 anFeatureSubset |-> anFeatureSubset,
                                 nPoint |-> j,
                                 nu |-> tr.aParameterisations[j].nu,
                                 dCVScore |-> tr.aParameterisations[j].dCVScore,
                                 bScored |-> jobs[j].status = "done"] :
                                    j \in DOMAIN jobs}]
       IN  tr' = IF tr.nCand < Len(tr.candidateSubsetsToTry)
                 THEN [t1 EXCEPT !.nCand = @ + 1, !.pc = "subset"]
                 ELSE EndOfSize(t1)
    /\ jobs' = <<>>
    /\ UNCHANGED <<persistVars, runtimeVars, calibVars, unitVars>>

\* Lines 1317-1330: the sweep of the boundary from dBoundary (tenths) to 1.
\* adSignFix keeps, sample by sample, the sign correction propCorrect left in
\* dSignFix when the sample was recorded.
RECURSIVE SweepBoundaries(_, _, _, _, _, _)
SweepBoundaries(svm, features, labels, pClassWeights, dBoundary, acc) ==
    IF dBoundary > ScoreUnit THEN acc
    ELSE LET r == propCorrect(svm, features, labels, acc.dSignFix, acc.dPrecision,
                              dBoundary, pClassWeights)
         IN  SweepBoundaries(svm, features, labels, pClassWeights, dBoundary + 1,
                 [dSignFix |-> r.dSignCorrection,
                  dPrecision |-> r.dPrecision,
                  adSignFix |-> Append(acc.adSignFix, r.dSignCorrection),
                  PRLookup |-> [first |-> Append(acc.PRLookup.first, dBoundary),
                                second |-> Append(acc.PRLookup.second, r.dPrecision)]])

\* Lines 1726-1731 and 1296-1338: the engine is trained on every example of
\* the best subset, the boundary is swept, the decision boundary is written
\* out and the sigmoid is fitted.
TrainOnAll ==
    /\ tr.pc = "trainOnAll"
    /\ \E sub \in {FeatureSubsetOf([tr EXCEPT !.featureSubset.anFeatureIdxSubset =
                                                tr.bestFeatureSubsetOverall])} :
       LET t1 == [tr EXCEPT !.featureSubset.anFeatureIdxSubset = tr.bestFeatureSubsetOverall]
           bFatal == \/ sub.fatal
                     \/ \E i \in 0..(K - 1) :
                           CTrainValidateFeatureSet(sub.aaadFeatureSubset, i, K).fatal
           allFeatures == sub.aaadFeatureSubset[FALSE] \o sub.aaadFeatureSubset[TRUE]
           allLabels == [i \in 1..Len(sub.aaadFeatureSubset[FALSE]) |-> svmScore(FALSE)]
                          \o [i \in 1..Len(sub.aaadFeatureSubset[TRUE]) |-> svmScore(TRUE)]
       IN  IF bFatal
           THEN tr' = [t1 EXCEPT !.pc = "fatal"]
           ELSE \E out \in TrainOutcomes :
                \E sweep \in {SweepBoundaries(out.svm, allFeatures, allLabels,
                                               tr.pClassWeights, -ScoreUnit,
                                               [dSignFix |-> tr.dSignFix,
                                                dPrecision |-> NO_PRECISION,
                                                adSignFix |-> <<>>,
                                                PRLookup |-> tr.PRLookup])} :
                  LET final == propCorrect(out.svm, allFeatures, allLabels, sweep.dSignFix,
                                           sweep.dPrecision, 0, tr.pClassWeights)
                      t2 == [t1 EXCEPT !.svm = out.svm,
                                       !.dSignFix = final.dSignCorrection,
                                       !.adSignFix = sweep.adSignFix,
                                       !.PRLookup = sweep.PRLookup]
                  IN  \E x \in FitVectors :
                        tr' = IF out.threw
                              THEN [t1 EXCEPT !.pc = "terminated"]
                              ELSE IF out.svm.throws /\ Len(allFeatures[1]) > 1
                              THEN [t2 EXCEPT !.pc = "terminated",
                                              !.dSignFix = sweep.dSignFix]
                              ELSE IF final.threw
                              THEN [t2 EXCEPT !.pc = "save"]
                              ELSE [t2 EXCEPT !.sigmoidParams = ParamsOfVector(x),
                                              !.pc = IF validate(ParamsOfVector(x))
                                                     THEN "save" ELSE "fatal"]
    /\ UNCHANGED <<persistVars, runtimeVars, calibVars, jobs, unitVars>>

\* A plausible slip of the destructor: the state is persisted whether or not a
\* CHECK has failed.
SaveTrained_afterFatal ==
    /\ tr.pc \in {"save", "fatal"}
    /\ ~file.exists
    /\ LET t == [boosterStates |-> tr.aBoosterStates,
                 featureSubset |-> tr.featureSubset,
                 svm |-> tr.svm,
                 dSignCorrection |-> tr.dSignFix,
                 PRLookup |-> tr.PRLookup,
                 sigmoidParams |-> tr.sigmoidParams,
                 trainingDetails |-> "summary"]
       IN  /\ trained' = t
           /\ file' = SavedFile(t)
           /\ svmFile' = SavedSVMFile(t, svmFile)
    /\ tr' = IF tr.pc = "save" THEN [tr EXCEPT !.pc = "saved"] ELSE tr
    /\ UNCHANGED <<loaded, runtimeVars, calibVars, jobs, unitVars>>

\* Line 1837: the state is persisted.
SaveTrained ==
    /\ tr.pc = "save"
    /\ LET t == [boosterStates |-> tr.aBoosterStates,
                 featureSubset |-> tr.featureSubset,
                 svm |-> tr.svm,
                 dSignCorrection |-> tr.dSignFix,
                 PRLookup |-> tr.PRLookup,
                 sigmoidParams |-> tr.sigmoidParams,
                 trainingDetails |-> "summary"]
       IN  /\ trained' = t
           /\ file' = SavedFile(t)
           /\ svmFile' = SavedSVMFile(t, svmFile)
    /\ tr' = [tr EXCEPT !.pc = "saved"]
    /\ UNCHANGED <<loaded, runtimeVars, calibVars, jobs, unitVars>>

NextTrain ==
    \/ Destruct
    \/ StartSubset
    \/ \E j \in DOMAIN jobs : JobRun(j)
    \/ FinishSubset
    \/ TrainOnAll
    \/ SaveTrained

SpecTrain == InitTrain /\ [][NextTrain]_vars

----------------------------------------------------------------------------
(* The collection phase: producers call addTrainingFeature. *)

\* The producers and the calls each of them makes.
MaxProducers == 2

MaxCalls == 2

Producers == 1..MaxProducers

\* What the provider of producer p computes for its call number k.
ProducerFeature(p, k) == <<p, k>>

InitCollect ==
    /\ coll = [pc |-> "collecting",
               mxLockToAdd |-> 0,
               aaadFeatures |-> ByClass(<<>>, <<>>),
               featuresFile |-> <<>>,
               returned |-> ByClass({}, {}),
               producer |-> [p \in Producers |->
                               [pc |-> "idle", nCalls |-> 0, bLabel |-> FALSE,
                                entireFeature |-> <<>>, nEnd |-> 0]]]
    /\ feat = NoUnit
    /\ folds = NoUnit
    /\ rates = NoUnit
    /\ casc = NoUnit
    /\ grid = NoUnit
    /\ onAll = NoUnit
    /\ trained = [dSignCorrection |-> 0]
    /\ file = NoFile
    /\ svmFile = NoFile
    /\ loaded = [s \in Slots |-> NoState]
    /\ clf = NoClassifier
    /\ featureMat = <<>>
    /\ call = [t \in {} |-> IdleCall]
    /\ fit = NoFit
    /\ tr = NoTraining
    /\ jobs = <<>>

\* A plausible slip of addTrainingFeature: no lock is taken.
AddLock_noMutex(p, bLabel) ==
    /\ coll.pc = "collecting"
    /\ coll.producer[p].pc = "idle"
    /\ coll.producer[p].nCalls < MaxCalls
    /\ coll' = [coll EXCEPT
                  !.producer[p] =
                      [pc |-> "locked",
                       nCalls |-> @.nCalls + 1,
                       bLabel |-> bLabel,
                       entireFeature |->
                           getEntireFeature(NewFeature(2),
                                            ProducerFeature(p, @.nCalls + 1)),
                       nEnd |-> 0]]
    /\ UNCHANGED <<persistVars, runtimeVars, calibVars, trainVars, feat, folds, rates, casc, grid, onAll>>

\* Lines 1854-1858: the call enters once it holds mxLockToAdd, and takes the
\* entire feature of its own vector.
AddLock(p, bLabel) ==
    /\ coll.pc = "collecting"
    /\ coll.producer[p].pc = "idle"
    /\ coll.producer[p].nCalls < MaxCalls
    /\ coll.mxLockToAdd = 0
    /\ coll' = [coll EXCEPT
                  !.mxLockToAdd = p,
                  !.producer[p] =
                      [pc |-> "locked",
                       nCalls |-> @.nCalls + 1,
                       bLabel |-> bLabel,
                       entireFeature |->
                           getEntireFeature(NewFeature(2),
                                            ProducerFeature(p, @.nCalls + 1)),
                       nEnd |-> 0]]
    /\ UNCHANGED <<persistVars, runtimeVars, calibVars, trainVars, feat, folds, rates, casc, grid, onAll>>

\* Line 1871, first half: push_back reads the end of the vector.
AddPushRead(p) ==
    /\ coll.producer[p].pc = "locked"
    /\ coll' = [coll EXCEPT
                  !.producer[p].pc = "read",
                  !.producer[p].nEnd = Len(coll.aaadFeatures[coll.producer[p].bLabel])]
    /\ UNCHANGED <<persistVars, runtimeVars, calibVars, trainVars, feat, folds, rates, casc, grid, onAll>>

\* Line 1871, second half: push_back writes the example at the end it read
\* and moves the end past it.
AddPushWrite(p) ==
    /\ coll.producer[p].pc = "read"
    /\ coll' = [coll EXCEPT
                  !.producer[p].pc = "written",
                  !.aaadFeatures[coll.producer[p].bLabel] =
                      Append(SubSeq(@, 1, coll.producer[p].nEnd),
                             coll.producer[p].entireFeature)]
    /\ UNCHANGED <<persistVars, runtimeVars, calibVars, trainVars, feat, folds, rates, casc, grid, onAll>>

\* Lines 1876-1880: the example is written to the features file and the call
\* returns, which releases the lock.
AddReturn(p) ==
    /\ coll.producer[p].pc = "written"
    /\ coll' = [coll EXCEPT
                  !.producer[p].pc = "idle",
                  !.featuresFile =
                      Append(@, <<coll.producer[p].bLabel, coll.producer[p].entireFeature>>),
                  !.returned[coll.producer[p].bLabel] =
                      @ \cup {coll.producer[p].entireFeature},
                  !.mxLockToAdd = IF @ = p THEN 0 ELSE @]
    /\ UNCHANGED <<persistVars, runtimeVars, calibVars, trainVars, feat, folds, rates, casc, grid, onAll>>

NextCollect ==
    \/ \E p \in Producers, bLabel \in BOOLEAN : AddLock(p, bLabel)
    \/ \E p \in Producers : AddPushRead(p)
    \/ \E p \in Producers : AddPushWrite(p)
    \/ \E p \in Producers : AddReturn(p)

SpecCollect == InitCollect /\ [][NextCollect]_vars

----------------------------------------------------------------------------
(* One feature vector and the calls made on it. *)

\* The coefficients of the vector and the calls made on it.
FeatureDims == 2

MaxFeatureCalls == 3

\* What value_int returns: small values, a bad number, the value of UNINIT
\* and a double next to it.
ProviderValues == {1, 4, NaN, UNINIT, UNINIT - 1}

\* No call was made yet.
NoRead == [nIdx |-> -1]

InitFeature ==
    /\ \E prov \in [1..FeatureDims -> ProviderValues] :
          feat = [pc |-> "ready",
                  prov |-> prov,
                  feature |-> NewFeature(FeatureDims),
                  nComputed |-> [i \in 1..FeatureDims |-> 0],
                  nCalls |-> 0,
                  last |-> NoRead]
    /\ coll = NoUnit
    /\ folds = NoUnit
    /\ rates = NoUnit
    /\ casc = NoUnit
    /\ grid = NoUnit
    /\ onAll = NoUnit
    /\ trained = [dSignCorrection |-> 0]
    /\ file = NoFile
    /\ svmFile = NoFile
    /\ loaded = [s \in Slots |-> NoState]
    /\ clf = NoClassifier
    /\ featureMat = <<>>
    /\ call = [t \in {} |-> IdleCall]
    /\ fit = NoFit
    /\ tr = NoTraining
    /\ jobs = <<>>

\* Lines 459-467: value(nIdx) on the vector f.  nComputed counts the calls of
\* value_int; last keeps what the call found and what it returned; the CHECK
\* of line 465 is fatal on a bad number.
ValueOn(f, nIdx) ==
    LET existingVal == f.feature[nIdx + 1]
        after == ValueCache(f.feature, f.prov, nIdx)
    IN  [f EXCEPT
           !.feature = after,
           !.nComputed[nIdx + 1] = IF existingVal = UNINIT THEN @ + 1 ELSE @,
           !.last = [nIdx |-> nIdx,
                     nComputedBefore |-> f.nComputed[nIdx + 1],
                     existingVal |-> existingVal,
                     ret |-> after[nIdx + 1]],
           !.pc = IF after[nIdx + 1] = NaN THEN "fatal" ELSE @]

\* Lines 481-488: value(i) for every i from nIdx on, up to a fatal CHECK.
RECURSIVE EntireOn(_, _)
EntireOn(f, nIdx) ==
    IF nIdx >= Len(f.feature) \/ f.pc = "fatal" THEN f
    ELSE EntireOn(ValueOn(f, nIdx), nIdx + 1)

\* A call of value(nIdx).
FeatValue(nIdx) ==
    /\ feat.pc = "ready"
    /\ feat.nCalls < MaxFeatureCalls
    /\ feat' = [ValueOn(feat, nIdx) EXCEPT !.nCalls = @ + 1]
    /\ UNCHANGED <<persistVars, runtimeVars, calibVars, trainVars, coll, folds, rates, casc, grid, onAll>>

\* A call of getEntireFeature.
FeatEntire ==
    /\ feat.pc = "ready"
    /\ feat.nCalls < MaxFeatureCalls
    /\ feat' = [EntireOn(feat, 0) EXCEPT !.nCalls = @ + 1]
    /\ UNCHANGED <<persistVars, runtimeVars, calibVars, trainVars, coll, folds, rates, casc, grid, onAll>>

NextFeature ==
    \/ \E nIdx \in 0..(FeatureDims - 1) : FeatValue(nIdx)
    \/ FeatEntire

SpecFeature == InitFeature /\ [][NextFeature]_vars

----------------------------------------------------------------------------
(* One set of cross-validation sets and the scoring of one point on it. *)

\* The examples of a class and the numbers of cross-validation sets.
FoldSizes == {20, 23, 120}

FoldCounts == {2, 3, 6, 7}

\* n examples of one coefficient, each its own value from nFirst on.
NumberedExamples(nFirst, n) == AsSeq([i \in 1..n |-> <<nFirst + i - 1>>])

InitFolds ==
    /\ \E nNeg \in FoldSizes, nPos \in FoldSizes, nK \in FoldCounts :
          folds = [pc |-> "new",
                   aaadFeatureSubset |-> ByClass(NumberedExamples(1, nNeg),
                                                 NumberedExamples(nNeg + 1, nPos)),
                   K |-> nK,
                   pClassWeights |-> computeNegWeight(1, nPos, nNeg),
                   aFeatureDivisions |-> <<>>,
                   adScores |-> <<>>]
    /\ coll = NoUnit
    /\ feat = NoUnit
    /\ rates = NoUnit
    /\ casc = NoUnit
    /\ grid = NoUnit
    /\ onAll = NoUnit
    /\ trained = [dSignCorrection |-> 0]
    /\ file = NoFile
    /\ svmFile = NoFile
    /\ loaded = [s \in Slots |-> NoState]
    /\ clf = NoClassifier
    /\ featureMat = <<>>
    /\ call = [t \in {} |-> IdleCall]
    /\ fit = NoFit
    /\ tr = NoTraining
    /\ jobs = <<>>

\* Lines 1372-1373: the cross-validation sets from set nSubset on, up to a
\* fatal CHECK.
RECURSIVE FeatureDivisions(_, _, _)
FeatureDivisions(aaadFeatureSubset, nSubset, nK) ==
    IF nSubset >= nK THEN <<>>
    ELSE LET split == CTrainValidateFeatureSet(aaadFeatureSubset, nSubset, nK)
         IN  IF split.fatal THEN <<split>>
             ELSE <<split>> \o FeatureDivisions(aaadFeatureSubset, nSubset + 1, nK)

\* Lines 1364-1374: the constructor of CKfoldTrainValidateFeatureSet, from
\* the reduced examples on.
FoldsConstruct ==
    /\ folds.pc = "new"
    /\ \E divisions \in {FeatureDivisions(folds.aaadFeatureSubset, 0, folds.K)} :
          folds' = [folds EXCEPT
                      !.aFeatureDivisions = divisions,
                      !.pc = IF \E i \in 1..Len(divisions) : divisions[i].fatal
                             THEN "fatal" ELSE "built"]
    /\ UNCHANGED <<persistVars, runtimeVars, calibVars, trainVars, coll, feat, rates, casc, grid, onAll>>

\* Lines 1380-1406: trainAndValidate for one point.  adScores are the values
\* added to dKFoldCVScore, one for each cross-validation set got through; an
\* exception of svm.train leaves the function.
FoldsScore ==
    /\ folds.pc = "built"
    /\ \E q \in JobRunsOf(folds.K) :
          LET nDone == IF q[Len(q)].threw THEN Len(q) - 1 ELSE Len(q)
          IN  folds' = [folds EXCEPT
                          !.adScores =
                              AsSeq([i \in 1..nDone |->
                                        validateFold(folds.aFeatureDivisions[i], q[i].svm,
                                                     folds.pClassWeights).ret]),
                          !.pc = IF q[Len(q)].threw THEN "threw" ELSE "scored"]
    /\ UNCHANGED <<persistVars, runtimeVars, calibVars, trainVars, coll, feat, rates, casc, grid, onAll>>

NextFolds ==
    \/ FoldsConstruct
    \/ FoldsScore

SpecFolds == InitFolds /\ [][NextFolds]_vars

----------------------------------------------------------------------------
(* The rates of one validation set. *)

\* The examples of a class in a validation set: the blocks of 20 examples
\* in K sets.
BlockSizes == {(MinExamples * (i + 1)) \div K - (MinExamples * i) \div K : i \in 0..(K - 1)}

\* What the engine answers for an example, in tenths, less the boundary.
TestLabels == {-5, 0, 5}

\* The numbers of positive and negative examples collected, and the
\* relative weight of the negatives.
CollectedSizes == {<<20, 20>>, <<20, 160>>}

NegRelativeWeights == {1, 2}

InitRates ==
    /\ \E nNeg \in BlockSizes, nPos \in BlockSizes, n \in CollectedSizes,
          fNegRelativeWeight \in NegRelativeWeights :
       \E test_labels \in [1..(nNeg + nPos) -> TestLabels] :
          rates = [pc |-> "validate",
                   labels |-> Repeat(svmScore(FALSE), nNeg) \o Repeat(svmScore(TRUE), nPos),
                   test_labels |-> test_labels,
                   pClassWeights |-> computeNegWeight(fNegRelativeWeight, n[1], n[2]),
                   dSignCorrection |-> 0,
                   dTotalSuccessRate |-> -1000,
                   dBSR |-> 0]
    /\ coll = NoUnit
    /\ feat = NoUnit
    /\ folds = NoUnit
    /\ casc = NoUnit
    /\ grid = NoUnit
    /\ onAll = NoUnit
    /\ trained = [dSignCorrection |-> 0]
    /\ file = NoFile
    /\ svmFile = NoFile
    /\ loaded = [s \in Slots |-> NoState]
    /\ clf = NoClassifier
    /\ featureMat = <<>>
    /\ call = [t \in {} |-> IdleCall]
    /\ fit = NoFit
    /\ tr = NoTraining
    /\ jobs = <<>>

\* Lines 948-950: propCorrect takes the two rates of the answers.
ComputeRates ==
    /\ rates.pc = "validate"
    /\ LET rate == computeTotalSuccessRate(rates.labels, rates.test_labels,
                                           rates.pClassWeights)
       IN  rates' = [rates EXCEPT
                       !.dSignCorrection = rate.dSignCorrection,
                       !.dTotalSuccessRate = rate.dTotalSuccessRate,
                       !.dBSR = computeBSR(rates.labels, rates.test_labels,
                                           rate.dSignCorrection),
                       !.pc = "done"]
    /\ UNCHANGED <<persistVars, runtimeVars, calibVars, trainVars, coll, feat, folds, casc, grid, onAll>>

NextRates == ComputeRates

SpecRates == InitRates /\ [][NextRates]_vars

----------------------------------------------------------------------------
(* One cascade construction: the loop of findBoosterStates. *)

\* The examples are given in groups <<number, coefficient 0, coefficient 1>>;
\* the coefficients are even, so that every threshold is whole.
RECURSIVE GroupedExamples(_)
GroupedExamples(groups) ==
    IF groups = <<>> THEN <<>>
    ELSE Repeat(<<groups[1][2], groups[1][3]>>, groups[1][1])
           \o GroupedExamples(Tail(groups))

\* The numbers of negatives of a group, around the 150 and the 10% a stage
\* has to remove.
GroupSizes == {0, 140, 150, 160}

LargeGroupSizes == {10, 1500}

PositivePlaces == {2, 6, 10}

SmallGroupSizes == {0, 10}

\* Negatives on four levels of coefficient 0 and 20 positives on one level,
\* which may be that of the fourth group of negatives; and sets in which
\* positives lie beyond more than 2000 negatives.
CascadeInputs ==
    {ByClass(GroupedExamples(<<<<n1, 0, 4>>, <<n2, 4, 0>>, <<n3, 8, 8>>, <<n4, 6, 4>>>>),
             GroupedExamples(<<<<20, v, 4>>>>)) :
        n1 \in GroupSizes, n2 \in GroupSizes, n3 \in LargeGroupSizes,
        n4 \in SmallGroupSizes, v \in PositivePlaces}
      \cup
    {ByClass(GroupedExamples(<<<<n, 4, 4>>, <<10, 8, 4>>>>),
             GroupedExamples(<<<<1, 0, 4>>, <<19, 6, 4>>>>)) : n \in {2000, 2010}}

InitCascade ==
    /\ \E aaadFeatures \in {x \in CascadeInputs : Len(x[FALSE]) > 0} :
          casc = [pc |-> "round",
                  aaadFeatures |-> aaadFeatures,
                  aBoosterStates |-> <<>>,
                  nBefore |-> ByClass(0, 0)]
    /\ coll = NoUnit
    /\ feat = NoUnit
    /\ folds = NoUnit
    /\ rates = NoUnit
    /\ grid = NoUnit
    /\ onAll = NoUnit
    /\ trained = [dSignCorrection |-> 0]
    /\ file = NoFile
    /\ svmFile = NoFile
    /\ loaded = [s \in Slots |-> NoState]
    /\ clf = NoClassifier
    /\ featureMat = <<>>
    /\ call = [t \in {} |-> IdleCall]
    /\ fit = NoFit
    /\ tr = NoTraining
    /\ jobs = <<>>

\* Lines 724-748: one turn of the loop of findBoosterStates.  nBefore keeps
\* the numbers of examples the stage just appended was found on.  With no
\* negative left line 761 reads the first element of an empty vector: the
\* loop returns without a stage or the process ends.
CascadeRound ==
    /\ casc.pc = "round"
    /\ IF Len(casc.aaadFeatures[FALSE]) = 0
       THEN \E end \in {"returned", "terminated"} :
               casc' = [casc EXCEPT !.pc = end]
       ELSE \E boosterState \in {findBestBoosterState(casc.aaadFeatures)} :
               IF boosterState.nFeatureIdx < 0
               THEN casc' = [casc EXCEPT !.pc = "returned"]
               ELSE \E filtered \in {FilterExamples(casc.aaadFeatures, boosterState)} :
                       casc' = [casc EXCEPT
                                  !.aBoosterStates = Append(@, boosterState),
                                  !.nBefore = ByClass(Len(casc.aaadFeatures[FALSE]),
                                                      Len(casc.aaadFeatures[TRUE])),
                                  !.aaadFeatures = ByClass(filtered[FALSE], filtered[TRUE]),
                                  !.pc = IF Len(filtered[FALSE])
                                             >= Len(casc.aaadFeatures[FALSE])
                                         THEN "fatal" ELSE "round"]
    /\ UNCHANGED <<persistVars, runtimeVars, calibVars, trainVars, coll, feat, folds,
                   rates, grid, onAll>>

NextCascade == CascadeRound

SpecCascade == InitCascade /\ [][NextCascade]_vars

----------------------------------------------------------------------------
(* One grid of scored hyperparameter points and its pruning. *)

\* The numbers of points of a grid: K, and more than K.
GridSizes == {K, K + 1, K + 2}

\* The place of point i among the scores when no two are equal.
GridOrder == <<5, 2, 7, 1, 8, 3, 6, 4>>

\* The scores (thousandths) of n points: point i has the score of its place
\* or that of the place below, so that some points may score alike.
GridScores(n) ==
    {AsSeq([i \in 1..n |-> 100 * (GridOrder[i] - d[i])]) : d \in [1..n -> {0, 1}]}

\* The dimensions of the examples and the sizes of the subset under test.
GridDims == 6

GridSubsetSizes == {2, 3}

InitGrid ==
    /\ \E n \in GridSizes, bFilter \in BOOLEAN, nSubset \in GridSubsetSizes :
       \E scores \in GridScores(n) :
          grid = [pc |-> "scored",
                  bFilterHyperparams |-> bFilter,
                  nDims |-> GridDims,
                  nSubsetSize |-> nSubset,
                  scored |-> AsSeq([i \in 1..n |->
                                      [CSVMParameterisation(i) EXCEPT
                                          !.dCVScore = scores[i], !.dNumSVs = 2]]),
                  aParameterisations |-> <<>>]
    /\ coll = NoUnit
    /\ feat = NoUnit
    /\ folds = NoUnit
    /\ rates = NoUnit
    /\ casc = NoUnit
    /\ onAll = NoUnit
    /\ trained = [dSignCorrection |-> 0]
    /\ file = NoFile
    /\ svmFile = NoFile
    /\ loaded = [s \in Slots |-> NoState]
    /\ clf = NoClassifier
    /\ featureMat = <<>>
    /\ call = [t \in {} |-> IdleCall]
    /\ fit = NoFit
    /\ tr = NoTraining
    /\ jobs = <<>>

\* Lines 1701-1702: the grid after the evaluation of a subset; scored keeps
\* the points as the evaluation left them.
FilterGrid ==
    /\ grid.pc = "scored"
    /\ grid' = [grid EXCEPT
                  !.aParameterisations =
                      IF grid.bFilterHyperparams /\ grid.nSubsetSize > grid.nDims \div 3
                      THEN filterHyperparameters(grid.scored)
                      ELSE grid.scored,
                  !.pc = "filtered"]
    /\ UNCHANGED <<persistVars, runtimeVars, calibVars, trainVars, coll, feat, folds,
                   rates, casc, onAll>>

NextGrid == FilterGrid

SpecGrid == InitGrid /\ [][NextGrid]_vars

----------------------------------------------------------------------------
(* One trainOnAll: the sweep of the boundary with the engine trained on     *)
(* every example of the best subset.                                        *)

\* Reduced and normalised examples of one coefficient: two classes that
\* overlap in one example each, two classes apart, and twice as many
\* negatives as positives.
SweepExamples ==
    {ByClass(Repeat(<<-1>>, 19) \o <<<<1>>>>, Repeat(<<1>>, 19) \o <<<<-1>>>>),
     ByClass(Repeat(<<-2>>, 20), Repeat(<<2>>, 20)),
     ByClass(Repeat(<<-1>>, 40), Repeat(<<1>>, 19) \o <<<<-1>>>>)}

\* The engines svm.train (line 1314) leaves: the response rises or falls
\* with the coefficient, by tenths or by halves, around an offset.
SweepEngines ==
    {EngineModel(w, b, FALSE) : w \in {-5, -1, 1, 5}, b \in {-5, 0, 5}}

InitOnAll ==
    /\ \E aaadFeatureSubset \in SweepExamples, svm \in SweepEngines,
          fNegRelativeWeight \in NegRelativeWeights :
          onAll = [pc |-> "trained",
                   aaadFeatureSubset |-> aaadFeatureSubset,
                   svm |-> svm,
                   fNegRelativeWeight |-> fNegRelativeWeight,
                   pClassWeights |-> computeNegWeight(fNegRelativeWeight,
                                                      Len(aaadFeatureSubset[TRUE]),
                                                      Len(aaadFeatureSubset[FALSE])),
                   dSignFix |-> 0,
                   adSignFix |-> <<>>,
                   adPrecision |-> [first |-> <<>>, second |-> <<>>],
                   dScore |-> 0]
    /\ coll = NoUnit
    /\ feat = NoUnit
    /\ folds = NoUnit
    /\ rates = NoUnit
    /\ casc = NoUnit
    /\ grid = NoUnit
    /\ trained = [dSignCorrection |-> 0]
    /\ file = NoFile
    /\ svmFile = NoFile
    /\ loaded = [s \in Slots |-> NoState]
    /\ clf = NoClassifier
    /\ featureMat = <<>>
    /\ call = [t \in {} |-> IdleCall]
    /\ fit = NoFit
    /\ tr = NoTraining
    /\ jobs = <<>>

\* Lines 1316-1337: the sweep, and the last propCorrect at boundary 0, whose
\* sign correction is the one the destructor saves.
SweepOnAll ==
    /\ onAll.pc = "trained"
    /\ LET f == onAll.aaadFeatureSubset
           allFeatures == f[FALSE] \o f[TRUE]
           allLabels == [i \in 1..Len(f[FALSE]) |-> svmScore(FALSE)]
                          \o [i \in 1..Len(f[TRUE]) |-> svmScore(TRUE)]
       IN  \E swept \in {SweepBoundaries(onAll.svm, allFeatures, allLabels,
                                           onAll.pClassWeights, -ScoreUnit,
                                           [dSignFix |-> onAll.dSignFix,
                                            dPrecision |-> NO_PRECISION,
                                            adSignFix |-> <<>>,
                                            PRLookup |-> onAll.adPrecision])} :
           \E final \in {propCorrect(onAll.svm, allFeatures, allLabels, swept.dSignFix,
                                       swept.dPrecision, 0, onAll.pClassWeights)} :
              onAll' = [onAll EXCEPT !.pc = "swept",
                                     !.dSignFix = final.dSignCorrection,
                                     !.adSignFix = swept.adSignFix,
                                     !.adPrecision = swept.PRLookup,
                                     !.dScore = final.ret]
    /\ UNCHANGED <<persistVars, runtimeVars, calibVars, trainVars, coll, feat, folds,
                   rates, casc, grid>>

NextOnAll == SweepOnAll

SpecOnAll == InitOnAll /\ [][NextOnAll]_vars

----------------------------------------------------------------------------
(* Claims on the persisted state. *)

\* The spec's example table [(-1, 0.5), (0, 0.8), (1, 0.95)].
ExampleLookup == [first |-> <<-10, 0, 10>>, second |-> <<50, 80, 95>>]

\* q lies between the integers a and b (either order), ends included.
Between(q, a, b) == Min(a, b) * q.d <= q.n /\ q.n <= Max(a, b) * q.d

\* Samples i and j of the lookup are two nearest to the target: no other sample
\* is nearer than either.
NearestPair(lk, target, i, j) ==
    /\ i # j
    /\ \A k \in (1..Len(lk.second)) \ {i, j} :
          /\ Abs(lk.second[k] - target) >= Abs(lk.second[i] - target)
          /\ Abs(lk.second[k] - target) >= Abs(lk.second[j] - target)

\* C4: every state loaded from a saved state has the cascade (index, threshold,
\* direction, in order), subset, means, scales, sign correction and sigmoid
\* parameters that were saved, whatever the target precision; two loads of one
\* saved state agree on all of them and differ at most in the boundary.
C4_RoundTrip ==
    \A s \in Slots :
        loaded[s].status = "loaded" =>
            /\ Len(loaded[s].boosterStates) = Len(trained.boosterStates)
            /\ \A i \in 1..Len(trained.boosterStates) :
                  /\ loaded[s].boosterStates[i].nFeatureIdx
                         = trained.boosterStates[i].nFeatureIdx
                  /\ loaded[s].boosterStates[i].dThreshold
                         = trained.boosterStates[i].dThreshold
                  /\ loaded[s].boosterStates[i].bRejectAbove
                         = trained.boosterStates[i].bRejectAbove
            /\ loaded[s].featureSubset.anFeatureIdxSubset
                   = trained.featureSubset.anFeatureIdxSubset
            /\ loaded[s].featureSubset.adNormalisingMean
                   = trained.featureSubset.adNormalisingMean
            /\ loaded[s].featureSubset.adNormalisingScale
                   = trained.featureSubset.adNormalisingScale
            /\ loaded[s].dSignCorrection = trained.dSignCorrection
            /\ loaded[s].sigmoidParams = trained.sigmoidParams
            /\ \A r \in Slots :
                  loaded[r].status = "loaded" =>
                      [loaded[r] EXCEPT !.dClassificationBoundary = FracOfInt(0),
                                        !.dPrecision = 0, !.useLookup = FALSE]
                      = [loaded[s] EXCEPT !.dClassificationBoundary = FracOfInt(0),
                                          !.dPrecision = 0, !.useLookup = FALSE]

\* Two loads of a saved two-stage cascade with different target precisions and
\* different boundaries.
C4_Witness ==
    /\ loaded[1].status = "loaded" /\ loaded[2].status = "loaded"
    /\ Len(loaded[1].boosterStates) = 2
    /\ loaded[1].boosterStates[1].bRejectAbove
    /\ loaded[1].dPrecision # loaded[2].dPrecision
    /\ loaded[1].dClassificationBoundary # loaded[2].dClassificationBoundary

\* C5 as stated: with at least two samples, the boundary derived at load time
\* lies between the boundaries of two samples nearest to the target.
C5_Original ==
    \A s \in Slots :
        (/\ loaded[s].status = "loaded"
         /\ loaded[s].useLookup
         /\ Len(trained.PRLookup.first) >= 2)
        => \E i, j \in 1..Len(trained.PRLookup.first) :
              /\ NearestPair(trained.PRLookup, loaded[s].dPrecision, i, j)
              /\ Between(loaded[s].dClassificationBoundary,
                         trained.PRLookup.first[i], trained.PRLookup.first[j])

\* C5 amended: with at least two samples, the boundary derived at load time is
\* the value at the target of the straight line through two samples nearest to
\* the target; it lies between their boundaries whenever the target precision
\* lies between their precisions (strictly between 0 and 1 for target 0.9 on
\* the example table), and is extrapolated beyond them otherwise.
C5_InterpolatedBoundary ==
    \A s \in Slots :
        (/\ loaded[s].status = "loaded"
         /\ loaded[s].useLookup
         /\ Len(trained.PRLookup.first) >= 2)
        => LET lk == trained.PRLookup
               t == loaded[s].dPrecision
               q == loaded[s].dClassificationBoundary
           IN  /\ \E i, j \in 1..Len(lk.first) :
                     /\ NearestPair(lk, t, i, j)
                     /\ lk.second[i] # lk.second[j]
                     /\ q.n * (lk.second[j] - lk.second[i])
                          = q.d * (lk.first[i] * (lk.second[j] - lk.second[i])
                                     + (lk.first[j] - lk.first[i]) * (t - lk.second[i]))
                     /\ (Min(lk.second[i], lk.second[j]) <= t
                           /\ t <= Max(lk.second[i], lk.second[j]))
                        => Between(q, lk.first[i], lk.first[j])
               /\ (lk = ExampleLookup /\ t = 90) => (0 < q.n /\ q.n < 10 * q.d)

\* The example: target 0.9 on the example table, boundary inside (0, 1).
C5_Witness ==
    \E s \in Slots :
        /\ loaded[s].status = "loaded"
        /\ loaded[s].useLookup
        /\ trained.PRLookup = ExampleLookup
        /\ loaded[s].dPrecision = 90
        /\ 0 < loaded[s].dClassificationBoundary.n
        /\ loaded[s].dClassificationBoundary.n < 10 * loaded[s].dClassificationBoundary.d

\* The two samples the loop of interpPrecisionBoundary selects for target t
\* from the saved lookup.
SelectedSamples(t) ==
    InterpLoop([dP1 |-> HUGE, dBoundary1 |-> 0, dP2 |-> HUGE, dBoundary2 |-> 0],
               1, t, trained.PRLookup)

\* A load that interpolates: the file is there with its lookup and a target
\* precision was asked for.
Interpolates(s) ==
    /\ loaded[s] # NoState
    /\ file.exists
    /\ ~FileNodeEmpty(file, "boundaries")
    /\ loaded[s].dPrecision # NO_PRECISION

\* C26: a load with a target precision fails fatally, and yields no
\* classification boundary, whenever the two samples selected for the
\* interpolation have equal precision; a load that yields a boundary has
\* selected samples of different precisions.
C26_HorizontalFitIsFatal ==
    \A s \in Slots :
        Interpolates(s) =>
            LET sel == SelectedSamples(loaded[s].dPrecision)
            IN  /\ sel.dP1 = sel.dP2 => loaded[s].status = "fatal"
                /\ loaded[s].status = "loaded" => sel.dP1 # sel.dP2

\* A load from a lookup of two samples of one precision and different
\* boundaries has failed.
C26_Witness ==
    \E s \in Slots :
        /\ Interpolates(s)
        /\ Len(trained.PRLookup.first) = 2
        /\ trained.PRLookup.second[1] = trained.PRLookup.second[2]
        /\ trained.PRLookup.first[1] # trained.PRLookup.first[2]
        /\ loaded[s].status = "fatal"

----------------------------------------------------------------------------
(* Claims on the runtime classifier. *)

\* Some stage of the cascade of classifier c fails on the provider values v.
CascadeRejects(c, v) ==
    \E k \in 1..Len(c.savedState.boosterStates) :
        LET b == c.savedState.boosterStates[k]
            x == v[b.nFeatureIdx + 1]
        IN  IF b.bRejectAbove THEN x >= b.dThreshold ELSE x <= b.dThreshold

\* The selected coefficients of v, each less its mean and times its scale.
NormalisedSelection(c, v) ==
    LET sel == c.savedState.featureSubset
    IN  [i \in 1..Len(sel.anFeatureIdxSubset) |->
            sel.adNormalisingScale[sel.anFeatureIdxSubset[i] + 1]
              * (v[sel.anFeatureIdxSubset[i] + 1]
                   - sel.adNormalisingMean[sel.anFeatureIdxSubset[i] + 1])]

\* The score the specification gives to provider values v: -1 when the
\* cascade rejects, else +1 when the sign correction is 0, else the sign
\* correction times (raw response less boundary).
ExpectedScore(c, v) ==
    LET bnd == c.savedState.dClassificationBoundary
        raw == RawPredict(c.svm, NormalisedSelection(c, v))
    IN  IF CascadeRejects(c, v) THEN FracOfInt(-ScoreUnit)
        ELSE IF c.savedState.dSignCorrection = 0 THEN FracOfInt(ScoreUnit)
        ELSE Frac(c.savedState.dSignCorrection * (raw * bnd.d - bnd.n), bnd.d)

\* C1: classify returns -1 when the cascade rejects the feature; otherwise
\* +1 when the persisted sign correction is 0; otherwise the sign correction
\* times (the engine's raw response to the normalised selected feature less
\* the classification boundary).  The cascade test comes first.
C1_ClassifyValue ==
    \A t \in DOMAIN call :
        (call[t].pc = "returned" /\ call[t].op = "classify")
            => call[t].ret = ExpectedScore(clf, call[t].prov)

\* C1 witness: classify has returned the sign-corrected engine score of a
\* feature that passed a cascade of two stages, with a boundary taken from
\* the lookup.
C1_Witness ==
    \E t \in DOMAIN call :
        /\ call[t].pc = "returned" /\ call[t].op = "classify"
        /\ Len(clf.savedState.boosterStates) = 2
        /\ ~CascadeRejects(clf, call[t].prov)
        /\ clf.savedState.dSignCorrection = -1
        /\ clf.savedState.useLookup
        /\ call[t].predicted
        /\ call[t].ret = ExpectedScore(clf, call[t].prov)
        /\ call[t].ret # FracOfInt(ScoreUnit)
        /\ call[t].ret # FracOfInt(-ScoreUnit)

\* C3: a classifier whose persisted sign correction is 0 never loads the
\* engine model and no call of it reaches the engine's predict.
C3_SignZeroNoEngine ==
    (clf.constructed /\ clf.savedState.dSignCorrection = 0)
        => /\ ~clf.svmLoaded
           /\ ~clf.svm.isTrained
           /\ \A t \in DOMAIN call : ~call[t].predicted /\ call[t].pc # "predict"

\* C3 witness: with sign correction 0 and an engine file on disk, a
\* probability call has passed the cascade and returned.
C3_Witness ==
    /\ clf.constructed /\ clf.savedState.dSignCorrection = 0
    /\ svmFile.exists
    /\ \E t \in DOMAIN call :
          /\ call[t].pc = "returned" /\ call[t].op = "probability"
          /\ ~CascadeRejects(clf, call[t].prov)

\* The sigmoid parameters p are valid: both thresholds are probabilities,
\* the low one is below the high one and the scale is positive.
ValidSigmoid(p) ==
    /\ 0 <= p.dThreshLo /\ p.dThreshLo < p.dThreshHi /\ p.dThreshHi <= 1000
    /\ p.dScale > 0

\* C6: a probability call on a classifier with invalid sigmoid parameters
\* ends fatally before classify is called: no engine call, no score written
\* to the output parameter, no value returned.
C6_ValidateFirst ==
    \A t \in DOMAIN call :
        (call[t].op = "probability" /\ ~ValidSigmoid(clf.savedState.sigmoidParams))
            => /\ call[t].pc \in {"validate", "fatal"}
               /\ ~call[t].classifyCalled
               /\ ~call[t].predicted
               /\ ~call[t].scoreOut.written

\* C6 witness: a probability call that asked for the score has ended fatally
\* on parameters whose only fault is the scale.
C6_Witness ==
    \E t \in DOMAIN call :
        /\ call[t].op = "probability" /\ call[t].pc = "fatal" /\ call[t].pdScore
        /\ clf.savedState.sigmoidParams = CSigmoidParams(100, 900, 0, 0)
        /\ clf.savedState.dSignCorrection # 0

\* C2: concurrent classify calls on one classifier, each with its own
\* feature, do not disturb each other: every call computes the score it
\* would compute alone.
C2_IndependentCalls ==
    \A t \in DOMAIN call :
        (call[t].classifyCalled /\ call[t].pc \in {"classified", "returned"})
            => call[t].dScore = ExpectedScore(clf, call[t].prov)

----------------------------------------------------------------------------
(* Claims on sigmoid calibration. *)

\* Responses (tenths) at which a calibrated sigmoid is examined.
Responses ==
    {FracOfInt(-1000), FracOfInt(-12), Frac(-7, 3), FracOfInt(0), Frac(20, 3),
     FracOfInt(15), FracOfInt(1000)}

\* C7: when sigmoid calibration completes without a fatal error the
\* parameters satisfy 0 <= threshold_lo < threshold_hi <= 1 and scale > 0,
\* and prob(r) lies in [threshold_lo, threshold_hi] for every response r.
C7_CalibratedSigmoid ==
    fit.pc = "done"
        => /\ 0 <= fit.sigmoidParams.dThreshLo
           /\ fit.sigmoidParams.dThreshLo < fit.sigmoidParams.dThreshHi
           /\ fit.sigmoidParams.dThreshHi <= 1000
           /\ fit.sigmoidParams.dScale > 0
           /\ \A r \in Responses :
                 /\ fit.sigmoidParams.dThreshLo <= prob(fit.sigmoidParams, r)
                 /\ prob(fit.sigmoidParams, r) <= fit.sigmoidParams.dThreshHi

\* C7 witness: a calibration has completed on parameters the optimiser set,
\* with thresholds 0 and 1 and responses that reach both of them.
C7_Witness ==
    /\ fit.pc = "done"
    /\ fit.nEvals > 0
    /\ fit.sigmoidParams.dThreshLo = 0
    /\ fit.sigmoidParams.dThreshHi = 1000
    /\ \E r \in Responses : prob(fit.sigmoidParams, r) = 0
    /\ \E r \in Responses : prob(fit.sigmoidParams, r) = 1000

\* The calibration is past LM.minimise.
Minimised == fit.pc \in {"validate", "done", "fatal"}

\* What is validated and kept are the parameters of the last evaluation of
\* the objective: those of the returned vector when the optimiser stands at
\* the vector it evaluated last.
ValidatedAreLastEvaluated ==
    Minimised /\ fit.nEvals > 0
        => /\ fit.sigmoidParams = ParamsOfVector(fit.x)
           /\ fit.x = fit.params => fit.sigmoidParams = ParamsOfVector(fit.params)

\* A calibration has completed on the vector evaluated last, after a step
\* to an earlier vector.
ValidatedAreLastEvaluated_Witness ==
    /\ fit.pc = "done"
    /\ fit.nEvals = MaxEvals
    /\ fit.x = fit.params

\* C27: the sigmoid parameters validated and kept after the calibration are
\* those of the vector the optimiser returned (scale x0, shift x1, upper
\* threshold logistic(x2), lower threshold logistic(x3)), whatever
\* evaluations of the objective it made.  (Without any evaluation the
\* parameters are the initial ones and the vector is their image under
\* init, lines 841-851, which the whole numbers here round.)
C27_ParamsOfReturnedVector ==
    Minimised /\ fit.nEvals > 0 => fit.sigmoidParams = ParamsOfVector(fit.params)

\* A calibration has completed with the parameters of a rejected step: the
\* optimiser returned the vector of its first evaluation.
RejectedStepKept ==
    /\ fit.pc = "done"
    /\ fit.nEvals = 2
    /\ fit.params # fit.x
    /\ fit.params # LMInitVector(DefaultSigmoidParams)
    /\ fit.sigmoidParams # ParamsOfVector(fit.params)

----------------------------------------------------------------------------
(* Claims on the training run. *)

\* The examples as they were collected, before the destructor ran.
Collected == Examples(tr.examples)

\* C8: when a training run with at least 20 examples of each class has
\* persisted its state and some threshold rule meets the acceptance bound on
\* the collected examples, the persisted cascade is not empty and its first
\* stage is the accepted rule that removes the most negatives; on the examples
\* that coefficient 0 separates the cascade is one stage on coefficient 0, at
\* least 150 negatives are gone and every positive is kept.
C8_CascadeFirstStage ==
    (tr.pc = "saved" /\ findBestBoosterState(Collected).nFeatureIdx >= 0)
        => /\ Len(file.boosterStates) > 0
           /\ LoadBoosterStates(file.boosterStates)[1] = findBestBoosterState(Collected)
           /\ tr.examples = "separable"
                 => /\ Len(file.boosterStates) = 1
                    /\ LoadBoosterStates(file.boosterStates)[1].nFeatureIdx = 0
                    /\ Len(tr.aaadFeatures[FALSE]) + MinRemoved <= Len(Collected[FALSE])
                    /\ Len(tr.aaadFeatures[TRUE]) = Len(Collected[TRUE])

\* C9: a job in which the engine threw, in svm.train or in svm.predict, has
\* run to its end, the cross-validation sets on which the engine threw have
\* scored 0, and the search has not been brought down.
C9_EngineFailureScoresZero ==
    \A j \in DOMAIN jobs :
        jobs[j].threw # {}
            => /\ jobs[j].status = "done"
               /\ jobs[j].dThrewScore = 0
               /\ tr.pc # "terminated"

\* C10: the persisted sign correction is 0 only when the engine was not
\* trained, one class being left without examples, and a run that has trained
\* the engine persists a sign correction of 1 or -1.
C10_SignZeroOnlyUntrained ==
    tr.pc = "saved"
        => /\ file.signCorrection = 0
                 => /\ ~tr.svm.isTrained
                    /\ \E b \in BOOLEAN : Len(tr.aaadFeatures[b]) = 0
           /\ tr.svm.isTrained => file.signCorrection \in {1, -1}

----------------------------------------------------------------------------
(* Claims on what a run writes. *)

\* C11: once a state is saved, the engine model file has been written exactly
\* when the sign correction saved is not 0, and it holds the engine saved.
C11_EngineFileIffSign ==
    file.exists
        => /\ svmFile.exists <=> trained.dSignCorrection # 0
           /\ svmFile.exists => svmFile.model = trained.svm

\* A boosting-only state is saved and no engine model file is there.
C11_Witness ==
    /\ file.exists
    /\ trained.dSignCorrection = 0
    /\ ~svmFile.exists

\* C12: a training run in which a CHECK failed before the save step has
\* written neither the state file nor the engine model file.
C12_FatalWritesNothing ==
    tr.pc = "fatal" => ~file.exists /\ ~svmFile.exists

\* The run has ended on the CHECKs of the fitted sigmoid.
C12_Witness ==
    /\ tr.pc = "fatal"
    /\ tr.svm.isTrained
    /\ ~validate(tr.sigmoidParams)

----------------------------------------------------------------------------
(* Claims on the collection phase. *)

\* The producers inside addTrainingFeature.
Adding == {p \in Producers : coll.producer[p].pc # "idle"}

\* How often the example f is in the sequence q.
Occurrences(q, f) == Cardinality({i \in 1..Len(q) : q[i] = f})

\* C13: with several producers calling addTrainingFeature, no two calls are
\* inside the append at once, every call that has returned has left its
\* example exactly once in the collection of its label, and the collection of
\* a label holds one example for each call that has appended to it: with every
\* call returned, as many examples as calls made with that label.
C13_AppendsExclusiveAndExact ==
    /\ Cardinality(Adding) <= 1
    /\ \A b \in BOOLEAN :
          /\ \A f \in coll.returned[b] : Occurrences(coll.aaadFeatures[b], f) = 1
          /\ Len(coll.aaadFeatures[b])
               = Cardinality(coll.returned[b])
                   + Cardinality({p \in Adding : /\ coll.producer[p].pc = "written"
                                                 /\ coll.producer[p].bLabel = b})

\* Every producer has made its calls, with both labels, and all have returned.
C13_Witness ==
    /\ Adding = {}
    /\ \A p \in Producers : coll.producer[p].nCalls = MaxCalls
    /\ Len(coll.aaadFeatures[TRUE]) = MaxProducers
    /\ Len(coll.aaadFeatures[FALSE]) = MaxProducers * (MaxCalls - 1)

----------------------------------------------------------------------------
(* Claims on the start of the training run. *)

\* No step of the training has run: no cascade, no normalising coefficients,
\* no search and no calibration.
NothingTrained ==
    /\ tr.aBoosterStates = <<>>
    /\ tr.aaadFeatures = Collected
    /\ tr.featureSubset = EmptySelecter
    /\ tr.aParameterisations = <<>>
    /\ tr.candidateSubsetsToTry = <<>>
    /\ jobs = <<>>
    /\ ~tr.svm.isTrained
    /\ tr.PRLookup = [first |-> <<>>, second |-> <<>>]
    /\ tr.sigmoidParams = DefaultSigmoidParams

\* C14: a training run with fewer than 20 positive or fewer than 20 negative
\* examples goes from its start straight to its end without a training step,
\* and no engine model file is written.
C14_InsufficientAborts ==
    (Len(tr.aaadFeatures[TRUE]) < 20 \/ Len(tr.aaadFeatures[FALSE]) < 20)
        => /\ tr.pc \in {"destruct", "insufficient"}
           /\ NothingTrained
           /\ ~svmFile.exists

\* A run with 19 negatives has ended.
C14_Witness ==
    /\ tr.pc = "insufficient"
    /\ Len(tr.aaadFeatures[FALSE]) = 19
    /\ Len(tr.aaadFeatures[TRUE]) >= 20

----------------------------------------------------------------------------
(* Claims on the feature vector. *)

\* C15: over any calls of value and getEntireFeature on a vector, value_int
\* has been called at most once for each index, and a read of an index that
\* was computed before returns what the vector held.
C15_ComputedAtMostOnce ==
    /\ \A i \in 1..FeatureDims : feat.nComputed[i] <= 1
    /\ (feat.last # NoRead /\ feat.last.nComputedBefore >= 1)
          => feat.last.ret = feat.last.existingVal

----------------------------------------------------------------------------
(* Claims on the cross-validation sets. *)

Range(q) == {q[i] : i \in 1..Len(q)}

\* The examples of both classes given to the constructor.
AllExamples == Range(folds.aaadFeatureSubset[FALSE]) \cup Range(folds.aaadFeatureSubset[TRUE])

\* The validation sets are pairwise disjoint and hold each example once, and
\* the training set of each cross-validation set is the examples outside its
\* validation set.
FoldsPartition ==
    folds.pc \in {"built", "scored", "threw"} =>
        LET d == folds.aFeatureDivisions
        IN  /\ Len(d) = folds.K
            /\ \A i \in 1..Len(d) :
                  /\ Cardinality(Range(d[i].validateFeatures)) = Len(d[i].validateFeatures)
                  /\ Cardinality(Range(d[i].trainFeatures)) = Len(d[i].trainFeatures)
                  /\ Range(d[i].trainFeatures) = AllExamples \ Range(d[i].validateFeatures)
            /\ \A i, j \in 1..Len(d) :
                  i # j => Range(d[i].validateFeatures) \cap Range(d[j].validateFeatures) = {}
            /\ UNION {Range(d[i].validateFeatures) : i \in 1..Len(d)} = AllExamples

\* C16: for every number of examples of a class and every K the K validation
\* blocks are pairwise disjoint and together hold each example exactly once,
\* the training set of fold i is exactly the examples outside block i, and
\* scoring one hyperparameter point produces exactly K fold scores.
C16_FoldsPartitionAndKScores ==
    /\ FoldsPartition
    /\ folds.pc \in {"scored", "threw"} => Len(folds.adScores) = folds.K

----------------------------------------------------------------------------
(* Claims on the jobs of one subset. *)

\* A step of the jobs of a subset, the search still waiting after it.
JobStep == tr.pc = "waiting" /\ tr'.pc = "waiting"

\* The search goes on from waitForAll and reads the scores of the points.
SearchReads == tr.pc = "waiting" /\ tr'.pc \notin {"waiting", "terminated"}

\* There is one job for each point, the score of point i is written by job
\* i alone, at most once, and the search reads the scores only when no job
\* is queued any more.
JobsOwnTheirPoints ==
    [][/\ tr.pc = "waiting" => Len(jobs) = Len(tr.aParameterisations)
       /\ JobStep =>
             \A i \in DOMAIN jobs :
                 tr'.aParameterisations[i] # tr.aParameterisations[i] =>
                     /\ jobs[i].status = "queued"
                     /\ jobs'[i].status = "done"
                     /\ \A k \in DOMAIN jobs \ {i} :
                           /\ jobs'[k] = jobs[k]
                           /\ tr'.aParameterisations[k] = tr.aParameterisations[k]
       /\ SearchReads => \A i \in DOMAIN jobs : jobs[i].status # "queued"]_vars

\* C17: within one subset run every hyperparameter point is scored by
\* exactly one job, no two jobs write the same point, and the search reads
\* the score of a point only after every job of the batch has completed.
C17_EachPointScoredByItsJob ==
    [][/\ tr.pc = "waiting" => Len(jobs) = Len(tr.aParameterisations)
       /\ JobStep =>
             \A i \in DOMAIN jobs :
                 tr'.aParameterisations[i] # tr.aParameterisations[i] =>
                     /\ jobs[i].status = "queued"
                     /\ jobs'[i].status = "done"
                     /\ \A k \in DOMAIN jobs \ {i} :
                           tr'.aParameterisations[k] = tr.aParameterisations[k]
       /\ SearchReads => \A i \in DOMAIN jobs : jobs[i].status = "done"]_vars

----------------------------------------------------------------------------
(* Claims on the result of the search. *)

\* The search over the subsets and points is over.
SearchOver == tr.pc = "trainOnAll"

\* The pairs of a subset and a point scored by a job.
Scored == {e \in tr.evaluated : e.bScored}

\* The chosen pair is a scored pair and no scored pair has a greater score.
ChosenIsBestScored ==
    /\ \A e \in Scored : e.dCVScore <= tr.bestParameterisationOverall.dCVScore
    /\ \E e \in Scored :
          /\ e.anFeatureSubset = tr.bestFeatureSubsetOverall
          /\ e.nu = tr.bestParameterisationOverall.nu
          /\ e.dCVScore = tr.bestParameterisationOverall.dCVScore

\* When no job was lost the chosen pair is the best pair scored.
ChosenIsBestUnlessJobLost ==
    SearchOver /\ Scored = tr.evaluated => ChosenIsBestScored

ChosenIsBestAfterFullSearch ==
    /\ SearchOver
    /\ Scored = tr.evaluated
    /\ Cardinality({e.anFeatureSubset : e \in Scored}) > 1
    /\ \E e \in Scored : e.dCVScore < tr.bestParameterisationOverall.dCVScore

\* C18: after the search the chosen pair of a subset and a hyperparameter
\* point has the greatest cross-validation score of all pairs evaluated at
\* any subset size, and the chosen subset is the one on which the chosen
\* point obtained that score.
C18_ChosenPairIsMaximal == SearchOver => ChosenIsBestScored

----------------------------------------------------------------------------
(* Claims on equal scores. *)

\* The candidates the search read with the greatest score.
TopCandidates ==
    {e \in tr.evaluated : \A f \in tr.evaluated : f.dCVScore <= e.dCVScore}

\* Some candidate was read with a score above that of a point never scored.
SomeScoreRead ==
    \E e \in tr.evaluated : e.dCVScore > CSVMParameterisation(-1).dCVScore

\* e is read before every other candidate of its subset size in S: its
\* subset comes first, and its point first among those of the subset.
FirstOfItsSize(e, S) ==
    \A f \in S : f.nSize = e.nSize =>
        \/ e.nCand < f.nCand
        \/ e.nCand = f.nCand /\ e.nPoint <= f.nPoint

\* The search has retained candidate e.
Retained(e) ==
    /\ tr.bestFeatureSubsetOverall = e.anFeatureSubset
    /\ tr.bestParameterisationOverall.nu = e.nu
    /\ tr.bestParameterisationOverall.dCVScore = e.dCVScore

----------------------------------------------------------------------------
(* Claims on the rates. *)

ExampleWeight(i) == Abs(rates.pClassWeights[svmClass(rates.labels[i])])

TotalWeight == SumSeq([i \in 1..Len(rates.labels) |-> ExampleWeight(i)])

ErrorWeight ==
    SumSeq([i \in 1..Len(rates.labels) |->
               IF svmClass(rates.labels[i]) # svmClass(rates.test_labels[i])
               THEN ExampleWeight(i) ELSE 0])

\* The error weight exceeds half of the total weight.
MostlyWrong == 2 * ErrorWeight > TotalWeight

\* Apart from an error weight of exactly half the total, the sign and the
\* rate are as the error weight and the total weight give them.
SignAndRateOffTheHalf ==
    rates.pc = "done" /\ 2 * ErrorWeight # TotalWeight =>
        /\ rates.dSignCorrection = (IF MostlyWrong THEN -1 ELSE 1)
        /\ rates.dTotalSuccessRate =
              (IF MostlyWrong THEN (1000 * ErrorWeight) \div TotalWeight
               ELSE (1000 * (TotalWeight - ErrorWeight)) \div TotalWeight)

\* C21: computeTotalSuccessRate sets the sign correction to -1 and returns
\* weighted error / total weight exactly when the weighted error exceeds
\* half of the total weight; in every other case it sets the sign correction
\* to +1 and returns (total weight - weighted error) / total weight.
C21_SignFlipsAboveHalf ==
    rates.pc = "done" =>
        /\ rates.dSignCorrection = (IF MostlyWrong THEN -1 ELSE 1)
        /\ rates.dTotalSuccessRate =
              (IF MostlyWrong THEN (1000 * ErrorWeight) \div TotalWeight
               ELSE (1000 * (TotalWeight - ErrorWeight)) \div TotalWeight)

----------------------------------------------------------------------------
(* Claims on the cascade construction. *)

\* The examples of class bLabel the last stage appended has removed.
RemovedByLastStage(bLabel) == casc.nBefore[bLabel] - Len(casc.aaadFeatures[bLabel])

\* C22: for every stage appended by the cascade construction, filtering by
\* that stage removes at least 150 negatives and at least 10% of the
\* negatives present before the stage, so the negative count strictly
\* decreases; it removes fewer than 0.0005 times as many positives as
\* negatives, and the positive count never increases.
C22_StageRemovesEnough ==
    Len(casc.aBoosterStates) > 0 =>
        /\ RemovedByLastStage(FALSE) >= 150
        /\ 10 * RemovedByLastStage(FALSE) >= casc.nBefore[FALSE]
        /\ Len(casc.aaadFeatures[FALSE]) < casc.nBefore[FALSE]
        /\ 10000 * RemovedByLastStage(TRUE) < 5 * RemovedByLastStage(FALSE)
        /\ Len(casc.aaadFeatures[TRUE]) <= casc.nBefore[TRUE]

\* A second stage has been appended, on fewer negatives than the first.
C22_Witness ==
    /\ Len(casc.aBoosterStates) = 2
    /\ RemovedByLastStage(FALSE) >= 150
    /\ Len(casc.aaadFeatures[FALSE]) > 0

\* A stage that removes a positive with more than 2000 negatives.
StageRemovesPositive ==
    /\ Len(casc.aBoosterStates) > 0
    /\ RemovedByLastStage(TRUE) > 0

\* C28: during the cascade construction every round evaluates the candidate
\* rules on a non-empty negative set: no accepted stage removes all the
\* remaining negatives.
C28_NegativesNeverExhausted ==
    casc.pc = "round" => Len(casc.aaadFeatures[FALSE]) > 0

----------------------------------------------------------------------------
(* Claims on the selection of the coefficients. *)

\* The subset of the classifier's selecter.
ActiveSubset == clf.savedState.featureSubset.anFeatureIdxSubset

\* On the training path an empty subset ends the run before any engine is
\* trained on the reduced examples.
TrainingPathRefusesEmptySubset ==
    [][tr.pc = "trainOnAll" /\ tr.bestFeatureSubsetOverall = <<>>
          => tr'.pc = "fatal"]_vars

\* C23: selectAndNormalise fails with a fatal error whenever the active
\* subset is empty, on the training path and on the runtime path alike; it
\* never returns an empty reduced vector.
C23_EmptySubsetIsFatal ==
    \A t \in DOMAIN call :
        call[t].pc = "predict" => Len(ActiveSubset) > 0 /\ Len(featureMat) > 0

----------------------------------------------------------------------------
(* Claims on the pruning of the grid. *)

\* The pruning was asked for on a grid of more than K points.
Pruned ==
    /\ grid.pc = "filtered"
    /\ grid.bFilterHyperparams
    /\ grid.nSubsetSize > grid.nDims \div 3
    /\ Len(grid.scored) > K

\* The points kept are points of the evaluation and none left out has a
\* greater score than a point kept.
KeptAreBest ==
    LET kept == {grid.aParameterisations[i] : i \in 1..Len(grid.aParameterisations)}
        all == {grid.scored[i] : i \in 1..Len(grid.scored)}
    IN  /\ kept \subseteq all
        /\ Cardinality(kept) = Len(grid.aParameterisations)
        /\ \A p \in kept, q \in all \ kept : p.dCVScore >= q.dCVScore

\* No two points of the evaluation have the same score.
ScoresDiffer ==
    \A i, j \in 1..Len(grid.scored) :
        i # j => grid.scored[i].dCVScore # grid.scored[j].dCVScore

\* When no two points score alike the pruning leaves the K best.
PrunesToKWhenScoresDiffer ==
    Pruned /\ ScoresDiffer => Len(grid.aParameterisations) = K /\ KeptAreBest

\* C24: when hyperparameter filtering is enabled and the grid holds more
\* than K points, pruning leaves exactly K points and they are the K points
\* with the highest cross-validation scores from the evaluation that
\* preceded the pruning.
C24_PruningKeepsKBest ==
    Pruned => Len(grid.aParameterisations) = K /\ KeptAreBest

----------------------------------------------------------------------------
(* Claims on the feature subsets of the training. *)

\* A subset of the coefficients of the examples: no index twice, every index
\* that of a coefficient.
WellFormedSubset(anFeatureIdxSubset, nDims) ==
    /\ \A i \in 1..Len(anFeatureIdxSubset) :
          anFeatureIdxSubset[i] \in 0..(nDims - 1)
    /\ \A i, j \in 1..Len(anFeatureIdxSubset) :
          anFeatureIdxSubset[i] = anFeatureIdxSubset[j] => i = j

\* The subsets the training has made active, chosen or saved.
TrainingSubsets ==
    {tr.featureSubset.anFeatureIdxSubset, tr.bestFeatureSubsetThisSize,
     tr.bestFeatureSubsetOverall}
        \cup {tr.candidateSubsetsToTry[i] : i \in 1..Len(tr.candidateSubsetsToTry)}
        \cup (IF file.exists THEN {AsSeq(file.featureSubset)} ELSE {})

\* Without a featureSet file every subset of the training is well formed:
\* the full run, the backward elimination and the forward selection make
\* no other.
SubsetsWellFormedWithoutFile ==
    ~tr.featureSet.exists =>
        \A sub \in TrainingSubsets : WellFormedSubset(sub, Len(tr.aaadFeatures[TRUE][1]))

\* A subset smaller than all coefficients was under test without a file.
SubsetsWithoutFile_Witness ==
    /\ ~tr.featureSet.exists
    /\ tr.pc = "saved"
    /\ tr.featureSelectionMode # "eNoFS"
    /\ Len(tr.bestFeatureSubsetOverall) = 1

\* C25: every subset made active during the training or saved has no index
\* twice and only indices of coefficients of the examples, wherever it comes
\* from: the full run, the backward elimination, the forward selection or
\* the featureSet file.
C25_SubsetsWellFormed ==
    \A sub \in TrainingSubsets : WellFormedSubset(sub, Len(tr.aaadFeatures[TRUE][1]))

\* A subset naming a coefficient twice was saved.
DuplicateSubsetSaved ==
    /\ file.exists
    /\ ~WellFormedSubset(AsSeq(file.featureSubset), Len(tr.aaadFeatures[TRUE][1]))

----------------------------------------------------------------------------
(* Claims on the boundary sweep. *)

\* The runtime answer of lines 591-596 to the response dSVMResponse (tenths)
\* at classification boundary dBoundary under sign correction dSignCorrection.
RuntimeClass(dSVMResponse, dBoundary, dSignCorrection) ==
    svmClass(dSignCorrection * (dSVMResponse - dBoundary))

\* The precision (hundredths) of the saved engine on the examples of the
\* sweep when the runtime classifies at sample i of the lookup.
RuntimePrecision(i) ==
    LET f == onAll.aaadFeatureSubset
        all == f[FALSE] \o f[TRUE]
        bPredicted(k) == RuntimeClass(RawPredict(onAll.svm, all[k]),
                                      onAll.adPrecision.first[i], onAll.dSignFix)
        nLabelled == Cardinality({k \in 1..Len(all) : bPredicted(k)})
        nCorrect == Cardinality({k \in 1..Len(all) : bPredicted(k) /\ k > Len(f[FALSE])})
    IN  IF nLabelled = 0 THEN NaN ELSE (100 * nCorrect) \div nLabelled

\* A sample of the lookup computed under the sign correction that is saved
\* is the precision of the runtime at its boundary.
SameSignSamplesReproduce ==
    onAll.pc = "swept" =>
        \A i \in 1..Len(onAll.adSignFix) :
            onAll.adSignFix[i] = onAll.dSignFix
                => onAll.adPrecision.second[i] = RuntimePrecision(i)

\* C29: the sign correction saved with the engine is the one under which
\* every precision of the lookup was computed, so that the runtime at a
\* boundary of the lookup has the precision recorded for it.
C29_LookupUnderSavedSign ==
    onAll.pc = "swept" =>
        \A i \in 1..Len(onAll.adSignFix) :
            /\ onAll.adSignFix[i] = onAll.dSignFix
            /\ onAll.adPrecision.second[i] = RuntimePrecision(i)

\* A sample recorded under the other sign with a precision the runtime does
\* not have at its boundary, the negatives weighing twice the positives.
SampleUnderOtherSign ==
    /\ onAll.pc = "swept"
    /\ onAll.fNegRelativeWeight = 2
    /\ \E i \in 1..Len(onAll.adSignFix) :
          /\ onAll.adSignFix[i] # onAll.dSignFix
          /\ onAll.adPrecision.second[i] # NaN
          /\ RuntimePrecision(i) # NaN
          /\ onAll.adPrecision.second[i] # RuntimePrecision(i)

\* The sweep records one precision for each boundary.
LookupSequencesAlike ==
    Len(onAll.adPrecision.first) = Len(onAll.adPrecision.second)

\* A sweep of 21 boundaries has been recorded.
LookupSequencesAlike_Witness ==
    onAll.pc = "swept" /\ Len(onAll.adPrecision.second) = 2 * ScoreUnit + 1

\* C30: every precision recorded in the lookup during the sweep is a defined
\* number in [0,1], some example being predicted positive at every boundary,
\* and the lookup has as many boundaries as precisions.
C30_PrecisionsDefined ==
    onAll.pc = "swept" =>
        /\ LookupSequencesAlike
        /\ \A i \in 1..Len(onAll.adPrecision.second) :
              0 <= onAll.adPrecision.second[i] /\ onAll.adPrecision.second[i] <= 100

\* A precision 0/0 recorded under the sign correction that is saved.
UndefinedPrecisionRecorded ==
    /\ onAll.pc = "swept"
    /\ \E i \in 1..Len(onAll.adPrecision.second) :
          /\ onAll.adPrecision.second[i] = NaN
          /\ onAll.adSignFix[i] = onAll.dSignFix

============================================================================
